---- MODULE Spec2Model ----
(***************************************************************************)
(* The party subsystem of skeit (src/skeit/party.py): the registry kept in *)
(* git config, the party worktree, the merged-view builder and the party   *)
(* commands, over an abstract git repository.                              *)
(*                                                                         *)
(* A commit is the record [par, patch, t]: its parents, the change it      *)
(* introduces and its committer stamp.  Two commits are the same commit    *)
(* exactly when the records are equal, as with git's content hashes.  The  *)
(* stamp tells apart two merges of the same parents made at different      *)
(* times; a commit that applies a change to a parent is identified by the  *)
(* two and carries stamp 0.                                                *)
(***************************************************************************)
EXTENDS Integers, Sequences, FiniteSets, TLC

\* ------------------------------------------------------------------ bounds
\* The user makes commits with at most this many distinct fresh changes.
MaxUserCommits == 2
\* start is given at most this many branch names.
MaxGiven == 2
\* A behaviour holds at most this many steps that change the repository,
\* and at most MaxStepsThree of them when it starts with three branches.
MaxSteps == 5
MaxStepsThree == 3
\* and at most MaxStepsComma when it starts with the branch named "b1,b2".
MaxStepsComma == 3

\* ------------------------------------------------------------------- names
None == ""
PartyNames == {"p", "q"}
\* The local branches: b1 and b2 exist from the start, b3 in some behaviours.
Branches == {"b1", "b2", "b3"}
\* A branch whose name holds a comma, which git check-ref-format allows; it
\* exists in some behaviours.
CommaBranch == "b1,b2"
\* A branch name that never exists locally.
Ghost == "nb"
\* Branch names a user passes to a command.
InputNames == Branches
\* The committer stamps a command can run at: an earlier and a later time.
Stamps == {0, 1}

get_party_branch_name(name) == "party/" \o name

PartyRefs == {get_party_branch_name(n) : n \in PartyNames}
RefNames == Branches \cup {CommaBranch} \cup PartyRefs

\* ----------------------------------------------------------------- commits
NoCommit == [par |-> <<>>, patch |-> "none", t |-> 0]
Root == [par |-> <<>>, patch |-> "root", t |-> 0]
MkCommit(parents, patch, t) == [par |-> parents, patch |-> patch, t |-> t]

RECURSIVE Ancestors(_)
\* Every commit reachable from c, c included.
Ancestors(c) ==
    IF c = NoCommit THEN {}
    ELSE {c} \cup UNION {Ancestors(c.par[i]) : i \in 1..Len(c.par)}

IsMergeCommit(c) == Len(c.par) > 1

\* The changes contained in the history of c.
PatchesOf(c) == {a.patch : a \in {b \in Ancestors(c) : ~IsMergeCommit(b)}} \ {"root"}

RECURSIVE LogOrder(_)
\* git log lists commits newest first: a commit before its ancestors, which
\* are fewer than its own.
LogOrder(cs) ==
    IF cs = {} THEN <<>>
    ELSE LET c == CHOOSE x \in cs :
                    \A y \in cs : Cardinality(Ancestors(y)) <= Cardinality(Ancestors(x))
         IN  <<c>> \o LogOrder(cs \ {c})

\* ----------------------------------------------------------- serialisation
\* The value of party.<name>.branches is one string.  It is kept as the
\* sequence of its pieces: a name without a comma is one piece, "," is one.
Pieces(b) == IF b = CommaBranch THEN <<"b1", ",", "b2">> ELSE <<b>>

RECURSIVE JoinComma(_)
\* ",".join(branches)
JoinComma(bs) ==
    IF bs = <<>> THEN <<>>
    ELSE IF Len(bs) = 1 THEN Pieces(bs[1])
    ELSE Pieces(bs[1]) \o <<",">> \o JoinComma(Tail(bs))

RECURSIVE SplitComma(_, _)
\* str.split(","): the groups of pieces between commas, cur being the group
\* being read.
SplitComma(ps, cur) ==
    IF ps = <<>> THEN <<cur>>
    ELSE IF ps[1] = "," THEN <<cur>> \o SplitComma(Tail(ps), <<>>)
    ELSE SplitComma(Tail(ps), cur \o <<ps[1]>>)

\* A parse that returns the names last first.
ParseBranches_reversed(ps) ==
    LET groups == SelectSeq(SplitComma(ps, <<>>), LAMBDA g : g # <<>>)
    IN  [i \in 1..Len(groups) |-> groups[Len(groups) + 1 - i][1]]

\* [b.strip() for b in s.split(",") if b.strip()]
ParseBranches(ps) ==
    LET groups == SelectSeq(SplitComma(ps, <<>>), LAMBDA g : g # <<>>)
    IN  [i \in 1..Len(groups) |-> groups[i][1]]

\* ------------------------------------------------------------------- state
VARIABLES
    refs,     \* refs/heads: branch name -> commit, NoCommit when absent
    wt,       \* the party worktree
    mh,       \* HEAD of the main worktree: [br, at]
    active,   \* git config party.active, None when unset
    cfg,      \* git config party.<name>.*, None / <<>> when unset
    last,     \* the last step that changed the repository
    steps,    \* how many steps have changed the repository
    mwt,      \* the mb worktrees: branch -> [exists, br, merging]
    merged,   \* the branches that hold origin/<default branch>
    mlast     \* the last mb command and what it returned

vars == <<refs, wt, mh, active, cfg, last, steps, mwt, merged, mlast>>
mbvars == <<mwt, merged, mlast>>

\* No entry for the party path in git worktree list.
NoWorktree ==
    [exists |-> FALSE, br |-> None, at |-> NoCommit, op |-> "none", src |-> NoCommit]

\* No party.<name>.* key.
NoConfig ==
    [default |-> None, branches |-> <<>>, pending |-> None, pendingTarget |-> None]

\* The repository as one value S, which the operators below transform.
Cur == [refs |-> refs, wt |-> wt, mh |-> mh, active |-> active, cfg |-> cfg]

HeadOf(S, h) == IF h.br # None THEN S.refs[h.br] ELSE h.at
WtHead(S) == HeadOf(S, S.wt)
MainHead(S) == HeadOf(S, S.mh)

\* ------------------------------------------------- git, in the main worktree
\* git rev-parse --abbrev-ref HEAD: the branch, "HEAD" when HEAD is detached,
\* None when HEAD does not resolve (a branch without a commit yet).
get_current_branch(S) ==
    IF S.mh.br # None THEN S.mh.br
    ELSE IF S.mh.at # NoCommit THEN "HEAD"
    ELSE None

branch_exists_local(S, b) == b \in RefNames /\ S.refs[b] # NoCommit

\* A branch checked out in either worktree cannot be moved, deleted or
\* checked out a second time.
CheckedOutInWt(S, b) == S.wt.exists /\ S.wt.br = b
CheckedOutInMain(S, b) == S.mh.br = b

\* git checkout --detach HEAD
GitDetachMain(S) == [S EXCEPT !.mh = [br |-> None, at |-> MainHead(S)]]

\* git checkout --orphan <new>: HEAD on a branch that has no commit yet.
GitOrphanMain(S) == [S EXCEPT !.mh = [br |-> None, at |-> NoCommit]]

\* git checkout <b>; coOk: the working tree lets the checkout through.
GitCheckoutMain(S, b, coOk) ==
    IF branch_exists_local(S, b) /\ ~CheckedOutInWt(S, b) /\ coOk
    THEN [s |-> [S EXCEPT !.mh = [br |-> b, at |-> NoCommit]], ok |-> TRUE]
    ELSE [s |-> S, ok |-> FALSE]

\* git branch <b> <c>
GitBranchCreate(S, b, c) ==
    IF b \in RefNames /\ ~branch_exists_local(S, b)
    THEN [S EXCEPT !.refs[b] = c]
    ELSE S

\* A git branch -f that moves nothing.
GitBranchForce_kept(S, b, c) == S

\* git branch -f <b> <c>
GitBranchForce(S, b, c) ==
    IF b \in RefNames /\ ~CheckedOutInMain(S, b) /\ ~CheckedOutInWt(S, b)
    THEN [S EXCEPT !.refs[b] = c]
    ELSE S

\* git branch -D <b>
GitBranchDelete(S, b) ==
    IF branch_exists_local(S, b) /\ ~CheckedOutInMain(S, b) /\ ~CheckedOutInWt(S, b)
    THEN [S EXCEPT !.refs[b] = NoCommit]
    ELSE S

\* ------------------------------------------------ git, in the party worktree
\* wt.op: "none", or the operation stopped in the worktree: "merge" and
\* "pick" with unmerged paths, "empty" for a cherry-pick that stopped
\* because it changes nothing.  wt.src is the commit of a "pick", whose
\* change git cherry-pick --continue commits.
Unmerged(S) == S.wt.op \in {"merge", "pick"}

\* HEAD of the worktree moves to c, with its branch when it is on one.
WtAdvance(S, c) ==
    IF S.wt.br # None THEN [S EXCEPT !.refs[S.wt.br] = c]
    ELSE [S EXCEPT !.wt.at = c]

\* git checkout --detach <b>
GitWtCheckoutDetach(S, b) ==
    IF S.wt.exists /\ ~Unmerged(S) /\ branch_exists_local(S, b)
    THEN [s |-> [S EXCEPT !.wt = [exists |-> TRUE, br |-> None, at |-> S.refs[b],
                                  op |-> "none", src |-> NoCommit]],
          ok |-> TRUE]
    ELSE [s |-> S, ok |-> FALSE]

\* git checkout <b>
GitWtCheckout(S, b) ==
    IF S.wt.exists /\ ~Unmerged(S) /\ branch_exists_local(S, b)
       /\ ~CheckedOutInMain(S, b)
    THEN [s |-> [S EXCEPT !.wt = [exists |-> TRUE, br |-> b, at |-> NoCommit,
                                  op |-> "none", src |-> NoCommit]],
          ok |-> TRUE]
    ELSE [s |-> S, ok |-> FALSE]

\* git merge <b> --no-edit; conflict: the two sides change the same lines.
GitWtMerge(S, b, conflict, now) ==
    IF ~S.wt.exists \/ S.wt.op # "none" \/ ~branch_exists_local(S, b)
    THEN [s |-> S, ok |-> FALSE]
    ELSE LET h == WtHead(S)
             o == S.refs[b]
         IN  IF o \in Ancestors(h) THEN [s |-> S, ok |-> TRUE]
             ELSE IF h \in Ancestors(o) THEN [s |-> WtAdvance(S, o), ok |-> TRUE]
             ELSE IF conflict
             THEN [s |-> [S EXCEPT !.wt.op = "merge"], ok |-> FALSE]
             ELSE [s |-> WtAdvance(S, MkCommit(<<h, o>>, "merge", now)), ok |-> TRUE]

\* git cherry-pick <c>; conflict: the change of c does not apply to HEAD,
\* which cannot be when HEAD is the parent of c.  A change that HEAD holds
\* already either conflicts or applies to nothing, and git stops at both.
GitWtCherryPick(S, c, conflict) ==
    IF ~S.wt.exists \/ S.wt.op # "none" \/ c = NoCommit \/ IsMergeCommit(c)
    THEN [s |-> S, ok |-> FALSE]
    ELSE LET h == WtHead(S)
         IN  IF conflict /\ c.par # <<h>>
             THEN [s |-> [S EXCEPT !.wt.op = "pick", !.wt.src = c], ok |-> FALSE]
             ELSE IF c.patch \in PatchesOf(h)
             THEN [s |-> [S EXCEPT !.wt.op = "empty"], ok |-> FALSE]
             ELSE [s |-> WtAdvance(S, MkCommit(<<h>>, c.patch, 0)), ok |-> TRUE]

\* A cherry-pick --continue that reports success when it has committed
\* nothing.
GitWtCherryPickContinue_silent(S, resolved) ==
    IF S.wt.exists /\ S.wt.op = "pick" /\ resolved
    THEN [s |-> [WtAdvance(S, MkCommit(<<WtHead(S)>>, S.wt.src.patch, 0))
                    EXCEPT !.wt.op = "none", !.wt.src = NoCommit],
          ok |-> TRUE]
    ELSE [s |-> S, ok |-> TRUE]

\* git cherry-pick --continue; resolved: the user has resolved and staged
\* every unmerged path.
GitWtCherryPickContinue(S, resolved) ==
    IF S.wt.exists /\ S.wt.op = "pick" /\ resolved
    THEN LET n == MkCommit(<<WtHead(S)>>, S.wt.src.patch, 0)
             s1 == WtAdvance(S, n)
         IN  [s |-> [s1 EXCEPT !.wt.op = "none", !.wt.src = NoCommit], ok |-> TRUE]
    ELSE [s |-> S, ok |-> FALSE]

\* git cherry-pick --abort
GitWtCherryPickAbort(S) ==
    IF S.wt.exists /\ S.wt.op \in {"pick", "empty"}
    THEN [S EXCEPT !.wt.op = "none", !.wt.src = NoCommit]
    ELSE S

\* git merge --abort
GitWtMergeAbort(S) ==
    IF S.wt.exists /\ S.wt.op = "merge"
    THEN [S EXCEPT !.wt.op = "none", !.wt.src = NoCommit]
    ELSE S

\* ---------------------------------------------------------------- worktree
get_party_worktree(S) == S.wt.exists

\* wtOk: git worktree add can create the directory.
create_party_worktree(S, wtOk) ==
    IF get_party_worktree(S) THEN [s |-> S, ok |-> TRUE]
    ELSE IF wtOk /\ MainHead(S) # NoCommit
    THEN [s |-> [S EXCEPT !.wt = [exists |-> TRUE, br |-> None, at |-> MainHead(S),
                                  op |-> "none", src |-> NoCommit]],
          ok |-> TRUE]
    ELSE [s |-> S, ok |-> FALSE]

\* ---------------------------------------------------------------- registry
\* A lookup of party.active that finds nothing.
get_active_party_unset(S) == None

get_active_party(S) == S.active

set_active_party(S, name) == [S EXCEPT !.active = name]

\* A lookup that reads an unset party.<name>.pending as "sync".
get_party_config_pending(S, name) ==
    [default |-> S.cfg[name].default,
     branches |-> ParseBranches(S.cfg[name].branches),
     pending |-> IF S.cfg[name].pending = None THEN "sync" ELSE S.cfg[name].pending,
     pendingTarget |-> S.cfg[name].pendingTarget]

get_party_config(S, name) ==
    [default |-> S.cfg[name].default,
     branches |-> ParseBranches(S.cfg[name].branches),
     pending |-> S.cfg[name].pending,
     pendingTarget |-> S.cfg[name].pendingTarget]

\* The value of a keyword argument that was not passed.
NotGiven == <<None>>

\* A save that writes every key but pending.
save_party_config_no_pending(S, name, default, branches, pending, pending_target) ==
    [S EXCEPT !.cfg[name] =
        [default |-> IF default # None THEN default ELSE @.default,
         branches |-> IF branches # NotGiven THEN JoinComma(branches) ELSE @.branches,
         pending |-> @.pending,
         pendingTarget |->
             IF pending_target # None THEN pending_target ELSE @.pendingTarget]]

\* A save that unsets the keys it is not given.
save_party_config_replacing(S, name, default, branches, pending, pending_target) ==
    [S EXCEPT !.cfg[name] =
        [default |-> default,
         branches |-> IF branches # NotGiven THEN JoinComma(branches) ELSE <<>>,
         pending |-> pending,
         pendingTarget |-> pending_target]]

\* A save that writes the keys of every party.
save_party_config_all_parties(S, name, default, branches, pending, pending_target) ==
    [S EXCEPT !.cfg = [n \in PartyNames |->
        [default |-> IF default # None THEN default ELSE S.cfg[n].default,
         branches |-> IF branches # NotGiven THEN JoinComma(branches)
                      ELSE S.cfg[n].branches,
         pending |-> IF pending # None THEN pending ELSE S.cfg[n].pending,
         pendingTarget |-> IF pending_target # None THEN pending_target
                           ELSE S.cfg[n].pendingTarget]]]

save_party_config(S, name, default, branches, pending, pending_target) ==
    [S EXCEPT !.cfg[name] =
        [default |-> IF default # None THEN default ELSE @.default,
         branches |-> IF branches # NotGiven THEN JoinComma(branches) ELSE @.branches,
         pending |-> IF pending # None THEN pending ELSE @.pending,
         pendingTarget |->
             IF pending_target # None THEN pending_target ELSE @.pendingTarget]]

\* A deletion that removes no key.
delete_party_config_none(S, name) == S

delete_party_config(S, name) == [S EXCEPT !.cfg[name] = NoConfig]

\* A clearing that unsets every key of the party.
clear_pending_state_all(S, name) == [S EXCEPT !.cfg[name] = NoConfig]

clear_pending_state(S, name) ==
    [S EXCEPT !.cfg[name].pending = None, !.cfg[name].pendingTarget = None]

\* ------------------------------------------------------------- merged view
\* A git log without --no-merges: the merge commits are listed too.
get_branch_commits_with_merges(S, branch, exclude_branches) ==
    IF ~branch_exists_local(S, branch)
       \/ \E i \in 1..Len(exclude_branches) : ~branch_exists_local(S, exclude_branches[i])
    THEN <<>>
    ELSE LET excluded == UNION {Ancestors(S.refs[exclude_branches[i]]) :
                                  i \in 1..Len(exclude_branches)}
         IN  LogOrder(Ancestors(S.refs[branch]) \ excluded)

\* git log --no-merges <branch> ^<eb>...: newest first, [] when git fails.
get_branch_commits(S, branch, exclude_branches) ==
    IF ~branch_exists_local(S, branch)
       \/ \E i \in 1..Len(exclude_branches) : ~branch_exists_local(S, exclude_branches[i])
    THEN <<>>
    ELSE LET excluded == UNION {Ancestors(S.refs[exclude_branches[i]]) :
                                  i \in 1..Len(exclude_branches)}
         IN  LogOrder({c \in Ancestors(S.refs[branch]) \ excluded : ~IsMergeCommit(c)})

detect_unique_commits(S, merged_branch, party_branches) ==
    get_branch_commits(S, merged_branch, party_branches)

\* What a command is run with, besides its arguments:
\*   dirty     the main worktree has staged or unstaged changes
\*   now       the committer stamp of the merge commits it creates
\*   mc        the branch whose merge conflicts (None: every merge is clean)
\*   pc        which of the cherry-picks conflicts (0: none)
\*   coOk      git checkout in the main worktree goes through
\*   wtOk      git worktree add goes through
\*   resolved  the user has resolved the conflict in the party worktree
\*   foOk      finish's git checkout of the default branch goes through
\* A check that finds the tree clean whatever it holds.
has_staged_or_unstaged_never(in) == FALSE

has_staged_or_unstaged(in) == in.dirty

\* result = <call>; <the statements that follow, which read result>
Bind(result, Rest(_)) == Rest(result)

RECURSIVE MergeEach(_, _, _)
\* for branch in branches[1:]: git merge; stops at the first one that fails.
MergeEach(S, bs, in) ==
    IF bs = <<>> THEN [s |-> S, ok |-> TRUE]
    ELSE Bind(GitWtMerge(S, bs[1], bs[1] = in.mc, in.now), LAMBDA r :
         IF ~r.ok THEN [s |-> r.s, ok |-> FALSE]
         ELSE MergeEach(r.s, Tail(bs), in))

\* Returns the commit built, NoCommit for None.
build_merged_view_in_worktree(S, branches, in) ==
    IF branches = <<>> \/ ~get_party_worktree(S) THEN [s |-> S, commit |-> NoCommit]
    ELSE Bind(MergeEach(GitWtCheckoutDetach(S, branches[1]).s, Tail(branches), in),
              LAMBDA m :
         IF ~m.ok THEN [s |-> m.s, commit |-> NoCommit]
         ELSE [s |-> m.s, commit |-> WtHead(m.s)])

\* A rebuild that deletes the aggregate branch before it builds the view,
\* and creates it again from the commit built.
rebuild_merged_view_deleting(S, name, branches, in) ==
    Bind(create_party_worktree(
             GitBranchDelete(
                 IF get_current_branch(S) = get_party_branch_name(name)
                 THEN GitDetachMain(S) ELSE S,
                 get_party_branch_name(name)),
             in.wtOk), LAMBDA w :
    IF ~w.ok THEN [s |-> w.s, ok |-> FALSE]
    ELSE
    Bind(build_merged_view_in_worktree(w.s, branches, in), LAMBDA b :
    IF b.commit = NoCommit THEN [s |-> b.s, ok |-> FALSE]
    ELSE [s |-> GitBranchForce(b.s, get_party_branch_name(name), b.commit),
          ok |-> TRUE]))

rebuild_merged_view(S, name, branches, in) ==
    Bind(create_party_worktree(
             IF get_current_branch(S) = get_party_branch_name(name)
             THEN GitDetachMain(S) ELSE S,
             in.wtOk), LAMBDA w :
    IF ~w.ok THEN [s |-> w.s, ok |-> FALSE]
    ELSE
    Bind(build_merged_view_in_worktree(w.s, branches, in), LAMBDA b :
    IF b.commit = NoCommit THEN [s |-> b.s, ok |-> FALSE]
    ELSE [s |-> GitBranchForce(b.s, get_party_branch_name(name), b.commit),
          ok |-> TRUE]))

\* A checkout that reports success and checks nothing out.
checkout_party_branch_skipped(S, name, in) == [s |-> S, ok |-> TRUE]

checkout_party_branch(S, name, in) ==
    GitCheckoutMain(S, get_party_branch_name(name), in.coOk)

\* A deletion that leaves the branch.
delete_party_branch_kept(S, name) == S

delete_party_branch(S, name) == GitBranchDelete(S, get_party_branch_name(name))

\* ---------------------------------------------------------------- commands
\* A command returns [s, rc, why, picks]: the repository it leaves, its exit
\* code, the return statement it left by, and the commits it ran
\* git cherry-pick on, in order.
Ret(S, rc, why) == [s |-> S, rc |-> rc, why |-> why, picks |-> <<>>]
RetPicks(S, rc, why, picks) == [s |-> S, rc |-> rc, why |-> why, picks |-> picks]

\* A list without the current branch.
AllBranches_given(current, branches) == branches

\* [current] + [b for b in branches if b != current]
AllBranches(current, branches) ==
    <<current>> \o SelectSeq(branches, LAMBDA b : b # current)

cmd_party_start(S, name, branches, in) ==
    IF get_active_party(S) # None THEN Ret(S, 1, "active")
    ELSE IF has_staged_or_unstaged(in) THEN Ret(S, 1, "dirty")
    ELSE LET current == get_current_branch(S)
             all_branches == AllBranches(current, branches)
             party_branch == get_party_branch_name(name)
         IN
         IF current = None THEN Ret(S, 1, "nocurrent")
         ELSE IF \E i \in 1..Len(all_branches) : ~branch_exists_local(S, all_branches[i])
         THEN Ret(S, 1, "nobranch")
         ELSE IF branch_exists_local(S, party_branch) THEN Ret(S, 1, "exists")
         ELSE
         Bind(create_party_worktree(
                  set_active_party(
                      save_party_config(S, name, current, all_branches, None, None),
                      name),
                  in.wtOk), LAMBDA w :
         IF ~w.ok
         THEN Ret(delete_party_config(set_active_party(w.s, None), name), 1, "worktree")
         ELSE
         Bind(build_merged_view_in_worktree(w.s, all_branches, in), LAMBDA b :
         IF b.commit = NoCommit
         THEN Ret(delete_party_config(set_active_party(b.s, None), name), 1, "build")
         ELSE
         Bind(checkout_party_branch(GitBranchCreate(b.s, party_branch, b.commit),
                                    name, in), LAMBDA c :
         IF ~c.ok
         THEN Ret(delete_party_config(set_active_party(c.s, None), name), 1, "checkout")
         ELSE Ret(c.s, 0, "ok"))))

RECURSIVE PickEach(_, _, _, _)
\* for commit in unique_commits: git cherry-pick; i is the commit's place
\* in the list.  Stops at the first one that fails.
PickEach(S, commits, i, in) ==
    IF commits = <<>> THEN [s |-> S, ok |-> TRUE, picks |-> <<>>]
    ELSE Bind(GitWtCherryPick(S, commits[1], in.pc = i), LAMBDA r :
         IF ~r.ok THEN [s |-> r.s, ok |-> FALSE, picks |-> <<commits[1]>>]
         ELSE Bind(PickEach(r.s, Tail(commits), i + 1, in), LAMBDA rest :
              [rest EXCEPT !.picks = <<commits[1]>> \o @]))

\* The end of sync, move and continue: rebuild the merged view and check the
\* party branch out; picks are the commits cherry-picked so far.
RebuildAndCheckout(S, active_party, branches, picks, in) ==
    Bind(rebuild_merged_view(S, active_party, branches, in), LAMBDA r :
    IF ~r.ok THEN RetPicks(r.s, 1, "rebuild", picks)
    ELSE
    Bind(checkout_party_branch(r.s, active_party, in), LAMBDA c :
    IF ~c.ok THEN RetPicks(c.s, 1, "checkout", picks)
    ELSE RetPicks(c.s, 0, "ok", picks)))

cmd_party_sync(S, in) ==
    LET active_party == get_active_party(S)
    IN
    IF active_party = None THEN Ret(S, 1, "noactive")
    ELSE IF has_staged_or_unstaged(in) THEN Ret(S, 1, "dirty")
    ELSE
    LET config == get_party_config(S, active_party)
        party_branch == get_party_branch_name(active_party)
        default_branch == config.default
    IN
    Bind(detect_unique_commits(S, party_branch, config.branches), LAMBDA unique_commits :
    IF default_branch = None THEN Ret(S, 1, "nodefault")
    ELSE IF ~get_party_worktree(S) THEN Ret(S, 1, "noworktree")
    ELSE
    Bind(IF unique_commits # <<>>
         THEN PickEach(GitWtCheckout(S, default_branch).s, unique_commits, 1, in)
         ELSE [s |-> S, ok |-> TRUE, picks |-> <<>>], LAMBDA p :
    IF ~p.ok
    THEN RetPicks(save_party_config(p.s, active_party, None, NotGiven, "sync", None),
                  1, "pick", p.picks)
    ELSE RebuildAndCheckout(p.s, active_party, config.branches, p.picks, in)))

\* An add that puts the branch first in the member list.
cmd_party_add_first(S, branch, in) ==
    IF get_active_party(S) = None THEN Ret(S, 1, "noactive")
    ELSE IF ~branch_exists_local(S, branch) THEN Ret(S, 1, "nobranch")
    ELSE IF \E i \in 1..Len(get_party_config(S, get_active_party(S)).branches) :
                get_party_config(S, get_active_party(S)).branches[i] = branch
    THEN Ret(S, 0, "member")
    ELSE cmd_party_sync(
             save_party_config(S, get_active_party(S), None,
                               <<branch>> \o get_party_config(S, get_active_party(S)).branches,
                               None, None),
             in)

cmd_party_add(S, branch, in) ==
    LET active_party == get_active_party(S)
    IN
    IF active_party = None THEN Ret(S, 1, "noactive")
    ELSE IF ~branch_exists_local(S, branch) THEN Ret(S, 1, "nobranch")
    ELSE
    LET config == get_party_config(S, active_party)
    IN
    IF \E i \in 1..Len(config.branches) : config.branches[i] = branch
    THEN Ret(S, 0, "member")
    ELSE cmd_party_sync(
             save_party_config(S, active_party, None, config.branches \o <<branch>>,
                               None, None),
             in)

\* A default that takes any local branch, member or not.
cmd_party_default_any(S, branch) ==
    IF get_active_party(S) = None THEN Ret(S, 1, "noactive")
    ELSE IF ~branch_exists_local(S, branch) THEN Ret(S, 1, "nobranch")
    ELSE Ret(save_party_config(S, get_active_party(S), branch, NotGiven, None, None),
             0, "ok")

cmd_party_default(S, branch) ==
    LET active_party == get_active_party(S)
    IN
    IF active_party = None THEN Ret(S, 1, "noactive")
    ELSE IF ~branch_exists_local(S, branch) THEN Ret(S, 1, "nobranch")
    ELSE
    LET config == get_party_config(S, active_party)
    IN
    IF ~\E i \in 1..Len(config.branches) : config.branches[i] = branch
    THEN Ret(S, 1, "notmember")
    ELSE Ret(save_party_config(S, active_party, branch, NotGiven, None, None), 0, "ok")

cmd_party_move(S, commit, target_branch, in) ==
    LET active_party == get_active_party(S)
    IN
    IF active_party = None THEN Ret(S, 1, "noactive")
    ELSE IF has_staged_or_unstaged(in) THEN Ret(S, 1, "dirty")
    ELSE
    LET config == get_party_config(S, active_party)
    IN
    IF ~\E i \in 1..Len(config.branches) : config.branches[i] = target_branch
    THEN Ret(S, 1, "notmember")
    ELSE IF ~get_party_worktree(S) THEN Ret(S, 1, "noworktree")
    ELSE
    Bind(GitWtCheckout(
             save_party_config(S, active_party, None, NotGiven, "move", target_branch),
             target_branch), LAMBDA co :
    IF ~co.ok THEN Ret(clear_pending_state(co.s, active_party), 1, "wtcheckout")
    ELSE
    Bind(GitWtCherryPick(co.s, commit, in.pc = 1), LAMBDA p :
    IF ~p.ok THEN RetPicks(p.s, 1, "pick", <<commit>>)
    ELSE RebuildAndCheckout(clear_pending_state(p.s, active_party), active_party,
                            config.branches, <<commit>>, in)))

\* status lists at most this many unassigned commits.
StatusPreview == 10

\* get_branch_commits(branch, [branch + "~"]): [] when the tip has no parent.
CommitsOverFirstParent(S, branch) ==
    LET tip == S.refs[branch]
    IN  IF ~branch_exists_local(S, branch) \/ tip.par = <<>> THEN <<>>
        ELSE LogOrder({c \in Ancestors(tip) \ Ancestors(tip.par[1]) : ~IsMergeCommit(c)})

\* A preview that lists one commit more.
Preview_longer(unique) ==
    [unassigned |-> SubSeq(unique, 1, IF Len(unique) > StatusPreview + 1
                                      THEN StatusPreview + 1 ELSE Len(unique)),
     more |-> IF Len(unique) > StatusPreview + 1
              THEN Len(unique) - (StatusPreview + 1) ELSE 0]

\* unique[:10], and len(unique) - 10 when len(unique) > 10.
Preview(unique) ==
    [unassigned |-> SubSeq(unique, 1, IF Len(unique) > StatusPreview
                                      THEN StatusPreview ELSE Len(unique)),
     more |-> IF Len(unique) > StatusPreview THEN Len(unique) - StatusPreview ELSE 0]

NoReport ==
    [active |-> None, default |-> None, rows |-> <<>>, unassigned |-> <<>>, more |-> 0]

\* What status prints.
StatusReport(S) ==
    LET active_party == get_active_party(S)
    IN
    IF active_party = None THEN NoReport
    ELSE
    LET config == get_party_config(S, active_party)
        unique == detect_unique_commits(S, get_party_branch_name(active_party),
                                        config.branches)
    IN  [active |-> active_party,
         default |-> config.default,
         rows |-> [i \in 1..Len(config.branches) |->
                     [branch |-> config.branches[i],
                      commits |-> Len(CommitsOverFirstParent(S, config.branches[i]))]],
         unassigned |-> Preview(unique).unassigned,
         more |-> Preview(unique).more]

cmd_party_status(S) == Ret(S, 0, "ok")

cmd_party_finish(S, in) ==
    LET active_party == get_active_party(S)
    IN
    IF active_party = None THEN Ret(S, 1, "noactive")
    ELSE IF has_staged_or_unstaged(in) THEN Ret(S, 1, "dirty")
    ELSE
    LET default_branch == get_party_config(S, active_party).default
    IN
    Bind(cmd_party_sync(S, in), LAMBDA result :
    IF result.rc # 0 THEN [result EXCEPT !.why = "sync"]
    ELSE
    Bind(GitCheckoutMain(result.s, default_branch, in.foOk), LAMBDA c :
    IF ~c.ok THEN RetPicks(c.s, 1, "checkout", result.picks)
    ELSE RetPicks(set_active_party(
                      delete_party_config(delete_party_branch(c.s, active_party),
                                          active_party),
                      None),
                  0, "ok", result.picks)))

cmd_party_continue(S, in) ==
    LET active_party == get_active_party(S)
    IN
    IF active_party = None THEN Ret(S, 1, "noactive")
    ELSE
    LET config == get_party_config(S, active_party)
        pending == config.pending
    IN
    IF pending = None THEN Ret(S, 0, "nopending")
    ELSE IF ~get_party_worktree(S) THEN Ret(S, 1, "noworktree")
    ELSE IF pending = "move"
    THEN IF config.pendingTarget = None THEN Ret(S, 1, "notarget")
         ELSE Bind(GitWtCherryPickContinue(S, in.resolved), LAMBDA k :
              IF ~k.ok THEN Ret(k.s, 1, "pick")
              ELSE cmd_party_sync(clear_pending_state(k.s, active_party), in))
    ELSE IF pending = "sync"
    THEN Bind(GitWtCherryPickContinue(S, in.resolved), LAMBDA k :
         IF ~k.ok THEN Ret(k.s, 1, "pick")
         ELSE RebuildAndCheckout(clear_pending_state(k.s, active_party), active_party,
                                 config.branches, <<>>, in))
    ELSE Ret(S, 1, "unknown")

cmd_party_abort(S) ==
    LET active_party == get_active_party(S)
    IN
    IF active_party = None THEN Ret(S, 1, "noactive")
    ELSE
    LET config == get_party_config(S, active_party)
    IN
    IF config.pending = None THEN Ret(S, 0, "nopending")
    ELSE IF ~get_party_worktree(S) THEN Ret(S, 1, "noworktree")
    ELSE Ret(clear_pending_state(GitWtMergeAbort(GitWtCherryPickAbort(S)),
                                 active_party), 0, "ok")

\* ------------------------------------------------------------------------ mb
\* No directory .<repo>-mb-<branch>.
NoMbWorktree == [exists |-> FALSE, br |-> None, merging |-> FALSE]

\* The repository as mb reads and writes it.
MbCur == [refs |-> refs, mh |-> mh, wt |-> wt, mwt |-> mwt, merged |-> merged]

\* The path of the mb worktree of a branch, by its last component.
MbPath(branch) == "mb-" \o branch

\* git worktree list --porcelain: the main worktree first, then the linked
\* worktrees by path; branch is None for a detached HEAD.
MbOrder == <<"b1", "b2", "b3">>

WorktreeList(M) ==
    <<[path |-> "main", branch |-> M.mh.br]>>
    \o [i \in 1..Len(SelectSeq(MbOrder, LAMBDA b : M.mwt[b].exists)) |->
          [path |-> MbPath(SelectSeq(MbOrder, LAMBDA b : M.mwt[b].exists)[i]),
           branch |-> M.mwt[SelectSeq(MbOrder, LAMBDA b : M.mwt[b].exists)[i]].br]]
    \o (IF M.wt.exists THEN <<[path |-> "party", branch |-> M.wt.br]>> ELSE <<>>)

RECURSIVE FirstBranch(_)
\* The inner loop of find_pending_mb_branch: the first "branch" line of the
\* whole listing.
FirstBranch(entries) ==
    IF entries = <<>> THEN None
    ELSE IF entries[1].branch # None THEN entries[1].branch
    ELSE FirstBranch(Tail(entries))

\* For a worktree line whose path holds the mb prefix, the inner loop runs
\* over every line of the listing.
find_pending_mb_branch(M) ==
    IF \E i \in 1..Len(WorktreeList(M)) :
          WorktreeList(M)[i].path \in {MbPath(b) : b \in Branches}
    THEN FirstBranch(WorktreeList(M))
    ELSE None

\* What an mb command returns: the repository it leaves, its exit code, the
\* return statement it left by, and the branch it names as pending.
MbRet(M, rc, why, pend) == [s |-> M, rc |-> rc, why |-> why, pend |-> pend]

\* What mb is run with: uncommitted changes in the main worktree, the
\* branch is on origin, the merge conflicts, the user has resolved and
\* staged every unmerged path.
MbInput(isDirty, remote, conflict, resolved) ==
    [dirty |-> isDirty, remote |-> remote, conflict |-> conflict, resolved |-> resolved]

MbInputs ==
    {MbInput(d, r, c, FALSE) : d \in BOOLEAN, r \in BOOLEAN, c \in BOOLEAN}

\* git checkout --detach HEAD in the mb worktree of the branch.
MbDetach(M, branch) == [M EXCEPT !.mwt[branch].br = None]

\* git merge origin/<default branch> in the worktree, then the detach.
MbMerge(M, branch, in) ==
    IF branch \in M.merged THEN MbRet(MbDetach(M, branch), 0, "ok", None)
    ELSE IF in.conflict
    THEN MbRet([M EXCEPT !.mwt[branch].merging = TRUE], 1, "conflict", None)
    ELSE MbRet(MbDetach([M EXCEPT !.merged = @ \cup {branch}], branch), 0, "ok", None)

\* The branch is checked out in the main worktree, the party worktree or
\* another mb worktree.
MbCheckedOut(M, branch) ==
    \/ M.mh.br = branch
    \/ M.wt.exists /\ M.wt.br = branch
    \/ \E b \in Branches \ {branch} : M.mwt[b].exists /\ M.mwt[b].br = branch

\* The worktree of the branch is reused, or created, on the branch.
MbWorktree(M, branch, in) ==
    IF M.mwt[branch].exists
    THEN IF MbCheckedOut(M, branch) \/ M.mwt[branch].merging
         THEN MbRet(M, 1, "checkout", None)
         ELSE MbMerge([M EXCEPT !.mwt[branch].br = branch], branch, in)
    ELSE IF MbCheckedOut(M, branch) THEN MbRet(M, 1, "add", None)
    ELSE MbMerge([M EXCEPT !.mwt[branch] =
                     [exists |-> TRUE, br |-> branch, merging |-> FALSE]], branch, in)

\* The commit of origin/<branch> that git branch --track starts the local
\* branch at.
OriginTip == MkCommit(<<Root>>, "o", 0)

cmd_mb(M, branch, in) ==
    IF find_pending_mb_branch(M) # None
    THEN MbRet(M, 1, "pending", find_pending_mb_branch(M))
    ELSE IF in.dirty THEN MbRet(M, 1, "dirty", None)
    ELSE IF branch_exists_local(M, branch) THEN MbWorktree(M, branch, in)
    ELSE IF ~in.remote THEN MbRet(M, 1, "nobranch", None)
    ELSE MbWorktree([M EXCEPT !.refs[branch] = OriginTip], branch, in)

\* git commit --no-edit in the worktree, then the detach.
cmd_mb_continue(M, branch, in) ==
    IF ~M.mwt[branch].exists THEN MbRet(M, 1, "noworktree", None)
    ELSE IF M.mwt[branch].merging /\ ~in.resolved THEN MbRet(M, 1, "commit", None)
    ELSE IF M.mwt[branch].merging
    THEN MbRet(MbDetach([M EXCEPT !.mwt[branch].merging = FALSE,
                                  !.merged = @ \cup {branch}], branch), 0, "ok", None)
    ELSE MbRet(MbDetach(M, branch), 0, "ok", None)

\* mb --continue [branch]; branch is None when none is given.
cmd_mb_cont(M, branch, in) ==
    IF branch # None THEN cmd_mb_continue(M, branch, in)
    ELSE IF find_pending_mb_branch(M) = None THEN MbRet(M, 1, "nopending", None)
    ELSE IF find_pending_mb_branch(M) \notin Branches
    THEN MbRet(M, 1, "noworktree", find_pending_mb_branch(M))
    ELSE [cmd_mb_continue(M, find_pending_mb_branch(M), in)
             EXCEPT !.pend = find_pending_mb_branch(M)]

\* mb --abort.  subprocess.run raises when the directory it is to run in
\* does not exist, and the command ends with exit code 1.
cmd_mb_abort(M) ==
    IF find_pending_mb_branch(M) = None THEN MbRet(M, 1, "nopending", None)
    ELSE IF find_pending_mb_branch(M) \notin Branches
            \/ ~M.mwt[find_pending_mb_branch(M)].exists
    THEN MbRet(M, 1, "raised", find_pending_mb_branch(M))
    ELSE MbRet(MbDetach([M EXCEPT !.mwt[find_pending_mb_branch(M)].merging = FALSE],
                        find_pending_mb_branch(M)),
               0, "ok", find_pending_mb_branch(M))

\* ----------------------------------------------------------- specification
\* Every branch holds one commit of its own over the root commit.
InitRefsThree ==
    [b \in RefNames |->
        CASE b = "b1" -> MkCommit(<<Root>>, "a", 0)
          [] b = "b2" -> MkCommit(<<Root>>, "b", 0)
          [] b = "b3" -> MkCommit(<<Root>>, "c", 0)
          [] OTHER -> NoCommit]

\* b1, b2 and the branch named "b1,b2".
InitRefsComma ==
    [b \in RefNames |->
        CASE b = "b1" -> MkCommit(<<Root>>, "a", 0)
          [] b = "b2" -> MkCommit(<<Root>>, "b", 0)
          [] b = CommaBranch -> MkCommit(<<Root>>, "d", 0)
          [] OTHER -> NoCommit]

\* The same without b3.
InitRefs == [InitRefsThree EXCEPT !["b3"] = NoCommit]

\* last: the command that last changed the repository, its exit code and the
\* return statement it left by; cmd is "user" after a step of the user.  A
\* command that changes nothing is a stuttering step.
NoCommand == [cmd |-> "user", rc |-> 0, why |-> ""]

NoMbCommand == [cmd |-> "none", branch |-> None, rc |-> 0, why |-> "", pend |-> None]

InitWith(r) ==
    /\ mwt = [b \in Branches |-> NoMbWorktree]
    /\ merged = {}
    /\ mlast = NoMbCommand
    /\ refs = r
    /\ wt = NoWorktree
    /\ mh = [br |-> "b1", at |-> NoCommit]
    /\ active = None
    /\ cfg = [n \in PartyNames |-> NoConfig]
    /\ last = NoCommand
    /\ steps = 0

Init == InitWith(InitRefs)
InitThree == InitWith(InitRefsThree)
InitComma == InitWith(InitRefsComma)

\* No command deletes b3 or "b1,b2": each exists in a behaviour that starts
\* with it.
StepLimit ==
    IF refs[CommaBranch] # NoCommit THEN MaxStepsComma
    ELSE IF refs["b3"] # NoCommit THEN MaxStepsThree
    ELSE MaxSteps

\* The command cmd returned r.
Returned(cmd, r) ==
    IF r.s = Cur THEN UNCHANGED vars
    ELSE /\ steps < StepLimit
         /\ refs' = r.s.refs
         /\ wt' = r.s.wt
         /\ mh' = r.s.mh
         /\ active' = r.s.active
         /\ cfg' = r.s.cfg
         /\ last' = [cmd |-> cmd, rc |-> r.rc, why |-> r.why]
         /\ steps' = steps + 1
         /\ UNCHANGED mbvars

Input(isDirty, now, mc, pc, coOk, wtOk, resolved, foOk) ==
    [dirty |-> isDirty, now |-> now, mc |-> mc, pc |-> pc, coOk |-> coOk,
     wtOk |-> wtOk, resolved |-> resolved, foOk |-> foOk]

\* Sequences over S of length at most n.
SeqsUpTo(S, n) == UNION {[1..k -> S] : k \in 0..n}

\* The names passed in S: a user passes the name with a comma when that
\* branch exists.
NamesIn(S) == InputNames \cup {b \in {CommaBranch} : S.refs[b] # NoCommit}

GivenChoices == SeqsUpTo(NamesIn(Cur), MaxGiven)

\* The unassigned commits of the active party, as status lists them.
Unassigned(S) ==
    IF S.active = None THEN <<>>
    ELSE detect_unique_commits(S, get_party_branch_name(S.active),
                               get_party_config(S, S.active).branches)

\* The party names the user starts parties with.
StartNames == {"p"}

\* What a command can be run with in S.  A choice that no command reads is
\* left at one value: the worktree is only created when there is none, only
\* a commit the command picks can conflict, only a stopped cherry-pick can
\* be resolved, and a command that stops at staged or unstaged changes
\* reads nothing else.
PickChoices(S) == 0..Len(Unassigned(S))
WtChoices(S) == IF S.wt.exists THEN {TRUE} ELSE BOOLEAN
ResolvedChoices(S) == IF S.wt.op = "pick" THEN BOOLEAN ELSE {FALSE}

\* The branches merged when the list bs is built, and None.
MergeChoices(bs) == {None} \cup {bs[i] : i \in 2..Len(bs)}

\* The member list of the active party.
Members(S) == IF S.active = None THEN <<>> ELSE get_party_config(S, S.active).branches

\* The main worktree has staged or unstaged changes, nothing else chosen.
DirtyInput == Input(TRUE, 0, None, 0, TRUE, TRUE, FALSE, TRUE)

\* The commits a user names to move: the unassigned commits, and a revision
\* git does not know.
MoveChoices(S) == {NoCommit} \cup {Unassigned(S)[i] : i \in 1..Len(Unassigned(S))}

\* bs: the branch list the command builds.
StartInputs(S, bs) ==
    {DirtyInput} \cup
    {Input(FALSE, now, mc, 0, coOk, wtOk, FALSE, TRUE) :
        now \in Stamps, mc \in MergeChoices(bs), coOk \in BOOLEAN, wtOk \in WtChoices(S)}

SyncInputs(S, bs) ==
    {DirtyInput} \cup
    {Input(FALSE, now, mc, pc, coOk, TRUE, FALSE, TRUE) :
        now \in Stamps, mc \in MergeChoices(bs), pc \in PickChoices(S),
        coOk \in BOOLEAN}

MoveInputs(S) ==
    {DirtyInput} \cup
    {Input(FALSE, now, mc, pc, coOk, TRUE, FALSE, TRUE) :
        now \in Stamps, mc \in MergeChoices(Members(S)), pc \in 0..1, coOk \in BOOLEAN}

FinishInputs(S) ==
    {DirtyInput} \cup
    {Input(FALSE, now, mc, pc, coOk, TRUE, FALSE, foOk) :
        now \in Stamps, mc \in MergeChoices(Members(S)), pc \in PickChoices(S),
        coOk \in BOOLEAN, foOk \in BOOLEAN}

ContinueInputs(S) ==
    {Input(d, now, mc, pc, coOk, TRUE, resolved, TRUE) :
        d \in BOOLEAN, now \in Stamps, mc \in MergeChoices(Members(S)),
        pc \in PickChoices(S), coOk \in BOOLEAN, resolved \in ResolvedChoices(S)}

\* A command that, run with DirtyInput, does not get as far as the check for
\* staged or unstaged changes has read nothing of what it is run with: it
\* returns the same whatever that is.
Relevant(probe, inputs) == IF probe.why = "dirty" THEN inputs ELSE {DirtyInput}

Start ==
    \E name \in StartNames, given \in GivenChoices :
        \E in \in Relevant(cmd_party_start(Cur, name, given, DirtyInput),
                           StartInputs(Cur, AllBranches(get_current_branch(Cur), given))) :
            Returned("start", cmd_party_start(Cur, name, given, in))

Add ==
    \E branch \in NamesIn(Cur) :
        \E in \in Relevant(cmd_party_add(Cur, branch, DirtyInput),
                           SyncInputs(Cur, Members(Cur) \o <<branch>>)) :
            Returned("add", cmd_party_add(Cur, branch, in))

Default ==
    \E branch \in NamesIn(Cur) :
        Returned("default", cmd_party_default(Cur, branch))

Move ==
    \E commit \in MoveChoices(Cur), target \in NamesIn(Cur) :
        \E in \in Relevant(cmd_party_move(Cur, commit, target, DirtyInput),
                           MoveInputs(Cur)) :
            Returned("move", cmd_party_move(Cur, commit, target, in))

Sync ==
    \E in \in Relevant(cmd_party_sync(Cur, DirtyInput), SyncInputs(Cur, Members(Cur))) :
        Returned("sync", cmd_party_sync(Cur, in))

Status ==
    Returned("status", cmd_party_status(Cur))

Finish ==
    \E in \in Relevant(cmd_party_finish(Cur, DirtyInput), FinishInputs(Cur)) :
        Returned("finish", cmd_party_finish(Cur, in))

Continue ==
    \E in \in ContinueInputs(Cur) :
        Returned("continue", cmd_party_continue(Cur, in))

Abort ==
    Returned("abort", cmd_party_abort(Cur))

\* ------------------------------------------------------------------ the user
\* Between two commands the user works on the merged view in the main
\* worktree and commits a change there.
UserPatch(i) == CASE i = 1 -> "x" [] i = 2 -> "y" [] i = 3 -> "z" [] OTHER -> "w"

\* Every change some ref or HEAD still holds.
KnownPatches ==
    UNION ({PatchesOf(refs[b]) : b \in RefNames}
           \cup {PatchesOf(mh.at), PatchesOf(wt.at), PatchesOf(wt.src)})

\* git commit -a of a change no commit holds yet.
UserCommit ==
    /\ steps < StepLimit
    /\ steps' = steps + 1
    /\ mh.br \in PartyRefs
    /\ \E i \in 1..MaxUserCommits :
        /\ UserPatch(i) \notin KnownPatches
        /\ \A j \in 1..(i - 1) : UserPatch(j) \in KnownPatches
        /\ LET n == MkCommit(<<MainHead(Cur)>>, UserPatch(i), 0)
           IN  IF mh.br # None
               THEN refs' = [refs EXCEPT ![mh.br] = n] /\ mh' = mh
               ELSE mh' = [mh EXCEPT !.at = n] /\ refs' = refs
    /\ last' = NoCommand
    /\ UNCHANGED <<wt, active, cfg>>
    /\ UNCHANGED mbvars

Next ==
    \/ Start
    \/ Add
    \/ Default
    \/ Move
    \/ Sync
    \/ Status
    \/ Finish
    \/ Continue
    \/ Abort
    \/ UserCommit

Spec == Init /\ [][Next]_vars

\* The behaviours that start with three branches.
SpecThree == InitThree /\ [][Next]_vars

\* The behaviours that start with the branch named "b1,b2".
SpecComma == InitComma /\ [][Next]_vars

\* ---------------------------------------------------------------- mb steps
\* The mb command cmd, run for branch, returned r.
MbReturned(cmd, branch, r) ==
    /\ refs' = r.s.refs
    /\ mwt' = r.s.mwt
    /\ merged' = r.s.merged
    /\ mlast' = [cmd |-> cmd, branch |-> branch, rc |-> r.rc, why |-> r.why,
                 pend |-> r.pend]
    /\ UNCHANGED <<wt, mh, active, cfg, last, steps>>

Mb ==
    \E branch \in Branches, in \in MbInputs :
        MbReturned("mb", branch, cmd_mb(MbCur, branch, in))

MbContinue ==
    \E branch \in Branches \cup {None}, resolved \in BOOLEAN :
        MbReturned("continue", branch,
                   cmd_mb_cont(MbCur, branch, MbInput(FALSE, FALSE, FALSE, resolved)))

MbAbort ==
    MbReturned("abort", None, cmd_mb_abort(MbCur))

\* The user checks a branch out in the main worktree, or detaches its HEAD.
MbUserCheckout ==
    /\ \E b \in Branches \cup {None} :
          /\ b # mh.br
          /\ b # None => branch_exists_local(MbCur, b) /\ ~MbCheckedOut(MbCur, b)
          /\ mh' = IF b = None THEN [br |-> None, at |-> MainHead(Cur)]
                    ELSE [br |-> b, at |-> NoCommit]
    /\ UNCHANGED <<refs, wt, active, cfg, last, steps, mbvars>>

\* git fetch brings commits of origin/<default branch> no branch holds yet.
MbUserFetch ==
    /\ merged # {}
    /\ merged' = {}
    /\ UNCHANGED <<refs, wt, mh, active, cfg, last, steps, mwt, mlast>>

NextMb ==
    \/ Mb
    \/ MbContinue
    \/ MbAbort
    \/ MbUserCheckout
    \/ MbUserFetch

\* The behaviours of mb, in a repository without a party.
SpecMb == Init /\ [][NextMb]_vars

\* -------------------------------------------------------------- properties
\* The properties quantify over everything a command can be run with in the
\* current state, so they hold of every command at every reachable state,
\* whether or not the step is taken.

\* Nothing goes wrong and nothing conflicts.
CleanInput == Input(FALSE, 0, None, 0, TRUE, TRUE, FALSE, TRUE)

\* r: the command returned 1 and left the registry, the branches and both
\* worktrees as they were in S.
Rejected(S, r) == r.rc = 1 /\ r.s = S

\* Branch names given to start: any names, a missing one included.
GivenAny == SeqsUpTo(InputNames \cup {Ghost}, MaxGiven)

\* S, and S after the user has detached HEAD of the main worktree or put it
\* on a branch without a commit.
MainVariants(S) == {S, GitDetachMain(S), GitOrphanMain(S)}

\* C1: at most one party is active.  party.active names no party or one
\* party, only that party has keys in the registry, and start run while
\* party.active is set returns 1 and leaves the active pointer, every
\* party's keys and every branch unchanged.
C1_StartWhileActive ==
    /\ active \in PartyNames \cup {None}
    /\ \A n \in PartyNames : cfg[n] # NoConfig => n = active
    /\ active # None =>
        \A name \in PartyNames, given \in GivenAny :
            \A in \in StartInputs(Cur, AllBranches(get_current_branch(Cur), given)) :
                Rejected(Cur, cmd_party_start(Cur, name, given, in))

\* A party is active and start of another party stops at it.
C1_Witness ==
    /\ active = "p"
    /\ cmd_party_start(Cur, "q", <<"b2">>, CleanInput).why = "active"

\* The active party has a pending operation recorded.
PendingSet(S) ==
    S.active # None /\ get_party_config(S, S.active).pending \in {"move", "sync"}

\* C2: while the active party has pending = move or sync, each of start, add,
\* default, move and sync returns 1 and changes nothing.
C2_PendingBlocks ==
    PendingSet(Cur) =>
        /\ \A name \in PartyNames, given \in GivenAny :
            \A in \in StartInputs(Cur, AllBranches(get_current_branch(Cur), given)) :
                Rejected(Cur, cmd_party_start(Cur, name, given, in))
        /\ \A branch \in InputNames \cup {Ghost} :
            \A in \in SyncInputs(Cur, Members(Cur) \o <<branch>>) :
                Rejected(Cur, cmd_party_add(Cur, branch, in))
        /\ \A branch \in InputNames \cup {Ghost} :
            Rejected(Cur, cmd_party_default(Cur, branch))
        /\ \A commit \in MoveChoices(Cur), target \in InputNames \cup {Ghost} :
            \A in \in MoveInputs(Cur) :
                Rejected(Cur, cmd_party_move(Cur, commit, target, in))
        /\ \A in \in SyncInputs(Cur, Members(Cur)) :
            Rejected(Cur, cmd_party_sync(Cur, in))

\* The branches of the rows of a status report, in order.
ReportedBranches(report) == [i \in 1..Len(report.rows) |-> report.rows[i].branch]

\* The commit c is a merge of the branches bs: it holds the head of each,
\* and no change that none of them holds.
MergeOf(S, c, bs) ==
    /\ \A i \in 1..Len(bs) : S.refs[bs[i]] \in Ancestors(c)
    /\ PatchesOf(c) = UNION {PatchesOf(S.refs[bs[i]]) : i \in 1..Len(bs)}

\* What start(name, given) leaves when it returns 0, members being the
\* member list expected of it.
StartDone(S, name, members, r) ==
    r.rc = 0 =>
        /\ get_active_party(r.s) = name
        /\ get_party_config(r.s, name).default = get_current_branch(S)
        /\ get_party_config(r.s, name).branches = members
        /\ get_party_config(r.s, name).pending = None
        /\ branch_exists_local(r.s, get_party_branch_name(name))
        /\ MergeOf(r.s, r.s.refs[get_party_branch_name(name)], members)
        /\ r.s.refs[get_party_branch_name(name)] = WtHead(r.s)
        /\ get_current_branch(r.s) = get_party_branch_name(name)
        /\ StatusReport(r.s).active = name
        /\ StatusReport(r.s).default = get_current_branch(S)
        /\ ReportedBranches(StatusReport(r.s)) = members

\* start has what it needs in S: no party is active, the tree is clean, the
\* current and the given branches exist, party/<name> does not, no merge
\* conflicts, the worktree holds no unmerged paths and can be created, and
\* the checkout goes through.
StartClear(S, name, given, in) ==
    /\ get_active_party(S) = None
    /\ ~has_staged_or_unstaged(in)
    /\ branch_exists_local(S, get_current_branch(S))
    /\ \A i \in 1..Len(given) : branch_exists_local(S, given[i])
    /\ ~branch_exists_local(S, get_party_branch_name(name))
    /\ in.mc = None /\ in.wtOk /\ in.coOk
    /\ ~Unmerged(S)

\* C3: start(name, given) that has what it needs returns 0, and a start that
\* returns 0 leaves party.active = name, default = the invoking branch, the
\* member list = the invoking branch followed by the given branches other
\* than the invoking branch, in the order given, party/<name> at the merge
\* of the members built in the worktree and checked out in the main
\* worktree; status then reports that party, default and member list.
C3_StartSucceeds ==
    \A name \in PartyNames, given \in GivenAny :
        \A in \in StartInputs(Cur, AllBranches(get_current_branch(Cur), given)) :
            /\ StartClear(Cur, name, given, in)
                   => cmd_party_start(Cur, name, given, in).rc = 0
            /\ StartDone(Cur, name,
                         <<get_current_branch(Cur)>>
                             \o SelectSeq(given, LAMBDA b : b # get_current_branch(Cur)),
                         cmd_party_start(Cur, name, given, in))

\* start was given b3 and b2 on b1, and returned 0.
C3_Witness ==
    /\ last.cmd = "start" /\ last.rc = 0
    /\ Members(Cur) = <<"b1", "b3", "b2">>

\* C4: start that fails because the merged view cannot be built or the
\* worktree cannot be created returns 1 and leaves no party active, no
\* party.<name>.* key and no party/<name> branch.
C4_StartRollsBack ==
    \A name \in PartyNames, given \in GivenAny :
        \A in \in StartInputs(Cur, AllBranches(get_current_branch(Cur), given)) :
            cmd_party_start(Cur, name, given, in).why \in {"build", "worktree"} =>
                /\ cmd_party_start(Cur, name, given, in).rc = 1
                /\ get_active_party(cmd_party_start(Cur, name, given, in).s) = None
                /\ cmd_party_start(Cur, name, given, in).s.cfg[name] = NoConfig
                /\ ~branch_exists_local(cmd_party_start(Cur, name, given, in).s,
                                        get_party_branch_name(name))

\* start has failed at a merge that conflicts, and fails once more when the
\* worktree is gone and cannot be created.
C4_Witness ==
    /\ last.cmd = "start" /\ last.why = "build" /\ wt.op = "merge"
    /\ active = None
    /\ cmd_party_start([Cur EXCEPT !.wt = NoWorktree], "p", <<"b2">>,
                       [CleanInput EXCEPT !.wtOk = FALSE]).why = "worktree"

\* A precondition of start(name, given) is unmet in S.
StartUnmet(S, name, given, in) ==
    \/ S.active # None
    \/ in.dirty
    \/ get_current_branch(S) = None
    \/ ~branch_exists_local(S, get_current_branch(S))
    \/ \E i \in 1..Len(given) : ~branch_exists_local(S, given[i])
    \/ branch_exists_local(S, get_party_branch_name(name))

\* C5: start returns 1 and changes nothing, in the registry, the branches or
\* either worktree, whenever a party is active, the tree has staged or
\* unstaged changes, the current branch cannot be determined, the current
\* or a given branch does not exist locally, or party/<name> exists.
C5_StartRejects ==
    \A S \in MainVariants(Cur) :
        \A name \in PartyNames, given \in GivenAny :
            \A in \in StartInputs(S, AllBranches(get_current_branch(S), given)) :
                StartUnmet(S, name, given, in)
                    => Rejected(S, cmd_party_start(S, name, given, in))

\* Each precondition is the one start stops at, in some state.
C5_Witness ==
    /\ active = None
    /\ branch_exists_local(Cur, "party/p")
    /\ cmd_party_start(Cur, "p", <<>>, CleanInput).why = "exists"
    /\ cmd_party_start(Cur, "q", <<>>, DirtyInput).why = "dirty"
    /\ cmd_party_start(Cur, "q", <<Ghost>>, CleanInput).why = "nobranch"
    /\ cmd_party_start(GitOrphanMain(Cur), "q", <<>>, CleanInput).why = "nocurrent"
    /\ cmd_party_start(GitDetachMain(Cur), "q", <<>>, CleanInput).why = "nobranch"

\* The main worktree is on the aggregate branch of the active party, which
\* is a merge of the members.
AggregateCheckedOut(S) ==
    /\ get_current_branch(S) = get_party_branch_name(S.active)
    /\ MergeOf(S, S.refs[get_party_branch_name(S.active)], Members(S))

\* move(commit, target) returned r from S after its cherry-pick conflicted.
MoveConflicted(S, commit, target, r) ==
    r.why = "pick" /\ r.s.wt.op = "pick" /\ r.s.wt.src = commit

\* What move(commit, target) leaves when its cherry-pick conflicts.
MoveStopped(S, target, r) ==
    /\ r.rc = 1
    /\ get_party_config(r.s, S.active).pending = "move"
    /\ get_party_config(r.s, S.active).pendingTarget = target
    /\ r.s.wt.br = target
    /\ r.s.refs = S.refs

\* Nothing stops the sync that continue runs after a move.
SyncClear(in) == ~in.dirty /\ in.pc = 0 /\ in.mc = None /\ in.coOk

\* What continue leaves, run in S with a move pending and its cherry-pick
\* stopped at a conflict the user has resolved.
MoveContinued(S, in, r) ==
    /\ get_party_config(r.s, S.active).pendingTarget = None
    /\ get_party_config(r.s, S.active).pending \in {None, "sync"}
    /\ S.wt.src.patch \in PatchesOf(r.s.refs[S.wt.br])
    /\ SyncClear(in) =>
        /\ r.rc = 0
        /\ get_party_config(r.s, S.active).pending = None
        /\ AggregateCheckedOut(r.s)

\* A move is pending and the worktree is stopped in its cherry-pick.
MovePending(S) ==
    /\ S.active # None
    /\ get_party_config(S, S.active).pending = "move"
    /\ S.wt.exists /\ S.wt.op = "pick"
    /\ S.wt.br = get_party_config(S, S.active).pendingTarget

\* C6: move(c, target) whose cherry-pick conflicts returns 1 with
\* pending = move and pendingTarget = target persisted and the worktree
\* stopped in the cherry-pick on target.  A later continue whose
\* cherry-pick --continue succeeds commits the change on target, clears
\* pendingTarget and pending and runs sync: when the tree is clean, no
\* cherry-pick or merge of that sync conflicts and the checkout goes through,
\* it returns 0 with pending unset and the rebuilt aggregate branch checked
\* out; otherwise pending is unset or sync.
C6_MoveConflictThenContinue ==
    /\ \A commit \in MoveChoices(Cur), target \in InputNames :
        \A in \in MoveInputs(Cur) :
            MoveConflicted(Cur, commit, target, cmd_party_move(Cur, commit, target, in))
                => MoveStopped(Cur, target, cmd_party_move(Cur, commit, target, in))
    /\ MovePending(Cur) =>
        \A in \in ContinueInputs(Cur) :
            in.resolved => MoveContinued(Cur, in, cmd_party_continue(Cur, in))

\* move has stopped at a conflict, and continue completes it.
C6_Witness ==
    /\ last.cmd = "move" /\ last.why = "pick"
    /\ MovePending(Cur)
    /\ \E in \in ContinueInputs(Cur) :
        in.resolved /\ SyncClear(in) /\ cmd_party_continue(Cur, in).rc = 0

\* The pending marker of the active party of S, as r.s holds it.
PendingAfter(S, r) == get_party_config(r.s, S.active).pending

\* What move(commit, target) leaves when it returns 0.
MoveDone(S, commit, target, r) ==
    r.rc = 0 =>
        /\ r.s.refs[target] = MkCommit(<<S.refs[target]>>, commit.patch, 0)
        /\ PendingAfter(S, r) = None
        /\ get_party_config(r.s, S.active).pendingTarget = None
        /\ AggregateCheckedOut(r.s)
        /\ r.s.refs[get_party_branch_name(S.active)] = WtHead(r.s)

\* The marker is unset when move has completed, and set when move has
\* cherry-picked the commit and not completed its rebuild.
MoveAtomic(S, r) ==
    /\ r.rc = 0 => PendingAfter(S, r) = None
    /\ r.why = "rebuild" => PendingAfter(S, r) = "move"
    /\ (r.rc # 0 /\ PendingSet(S)) => PendingAfter(S, r) # None

\* C7: move(c, target) that returns 0 leaves the commit cherry-picked onto
\* target, pending and pendingTarget unset, the aggregate branch at the fresh
\* merge of the member list and checked out in the main worktree; the marker
\* is not left set by a move that completed and not cleared by a move that
\* did not complete its rebuild.
C7_MoveCompletes ==
    \A commit \in MoveChoices(Cur), target \in InputNames :
        \A in \in MoveInputs(Cur) :
            /\ MoveDone(Cur, commit, target, cmd_party_move(Cur, commit, target, in))
            /\ MoveAtomic(Cur, cmd_party_move(Cur, commit, target, in))

\* move has cherry-picked a commit onto b2 and returned 0.
C7_Witness ==
    /\ last.cmd = "move" /\ last.rc = 0
    /\ "x" \in PatchesOf(refs["b2"])
    /\ AggregateCheckedOut(Cur)

\* What sync leaves when one of its cherry-picks fails: the commits before
\* it are on the default branch, the failed one is the last it ran, and the
\* aggregate branch and the main worktree are as they were.
SyncStopped(S, r) ==
    /\ r.rc = 1
    /\ PendingAfter(S, r) = "sync"
    /\ r.s.refs[get_party_branch_name(S.active)]
           = S.refs[get_party_branch_name(S.active)]
    /\ r.s.mh = S.mh
    /\ r.s.wt.br = get_party_config(S, S.active).default
           => Cardinality(Ancestors(r.s.refs[r.s.wt.br]))
                  = Cardinality(Ancestors(S.refs[r.s.wt.br])) + Len(r.picks) - 1
    /\ (r.s.wt.op = "pick" /\ ~Unmerged(S)) => r.s.wt.src = r.picks[Len(r.picks)]

\* C8: when a cherry-pick of sync conflicts, sync stops there, records
\* pending = sync for the active party and returns 1, and the aggregate
\* branch is neither rebuilt nor moved.
C8_SyncConflict ==
    \A in \in SyncInputs(Cur, Members(Cur)) :
        cmd_party_sync(Cur, in).why = "pick" => SyncStopped(Cur, cmd_party_sync(Cur, in))

\* sync has stopped at a cherry-pick that conflicts.
C8_Witness ==
    /\ last.cmd = "sync" /\ last.why = "pick" /\ last.rc = 1
    /\ wt.op = "pick"
    /\ cfg["p"].pending = "sync"

\* The command that returned r met a conflict: it stopped at a cherry-pick
\* or in its rebuild and left unmerged paths in the worktree.
ConflictMet(r) == r.why \in {"pick", "rebuild"} /\ Unmerged(r.s)

\* C9: a party command that meets a merge or cherry-pick conflict on an
\* active party, be it add, move, sync or continue, in a cherry-pick or in
\* the rebuild, leaves the party with a pending operation, so that continue
\* and abort then find one.
C9_ConflictLeavesPending ==
    /\ (active # None /\ ~Unmerged(Cur)) =>
        /\ \A branch \in InputNames :
            \A in \in SyncInputs(Cur, Members(Cur) \o <<branch>>) :
                ConflictMet(cmd_party_add(Cur, branch, in))
                    => PendingSet(cmd_party_add(Cur, branch, in).s)
        /\ \A commit \in MoveChoices(Cur), target \in InputNames :
            \A in \in MoveInputs(Cur) :
                ConflictMet(cmd_party_move(Cur, commit, target, in))
                    => PendingSet(cmd_party_move(Cur, commit, target, in).s)
        /\ \A in \in SyncInputs(Cur, Members(Cur)) :
            ConflictMet(cmd_party_sync(Cur, in))
                => PendingSet(cmd_party_sync(Cur, in).s)
    /\ (active # None /\ PendingSet(Cur)) =>
        \A in \in ContinueInputs(Cur) :
            ConflictMet(cmd_party_continue(Cur, in))
                => PendingSet(cmd_party_continue(Cur, in).s)

\* In the list picks no commit comes after a commit it is an ancestor of.
OldestFirst(picks) ==
    \A i \in 1..Len(picks), j \in 1..Len(picks) :
        i < j => picks[j] \notin Ancestors(picks[i])

\* C10: sync cherry-picks the commits unique to the aggregate branch onto
\* the default branch oldest first: of two unique commits of which one is
\* an ancestor of the other, the ancestor is cherry-picked first.
C10_SyncOldestFirst ==
    \A in \in SyncInputs(Cur, Members(Cur)) :
        OldestFirst(cmd_party_sync(Cur, in).picks)

\* The elements of the sequence q.
Range(q) == {q[i] : i \in 1..Len(q)}

\* The commits unique to the aggregate branch of the active party of S: the
\* commits that are not merges, are reachable from party/<name> and are
\* reachable from no member branch, by the tips S holds.
UniqueSet(S) ==
    {c \in Ancestors(S.refs[get_party_branch_name(S.active)]) :
        /\ ~IsMergeCommit(c)
        /\ \A i \in 1..Len(Members(S)) : c \notin Ancestors(S.refs[Members(S)[i]])}

\* sync returned r from S: it ran git cherry-pick on unique commits only, on
\* none twice, and on every one of them unless a cherry-pick stopped it.
SyncReplays(S, r) ==
    /\ Range(r.picks) \subseteq UniqueSet(S)
    /\ Len(r.picks) = Cardinality(Range(r.picks))
    /\ r.why \in {"ok", "rebuild", "checkout"} => Range(r.picks) = UniqueSet(S)
    /\ r.why = "pick" => r.picks # <<>>

\* status lists unique commits only, the first StatusPreview of them, and
\* counts the others.
StatusLists(S, report) ==
    /\ Range(report.unassigned) \subseteq UniqueSet(S)
    /\ Len(report.unassigned) = Cardinality(Range(report.unassigned))
    /\ Len(report.unassigned) + report.more = Cardinality(UniqueSet(S))
    /\ report.more > 0 => Len(report.unassigned) = StatusPreview

\* C11: the commits sync replays, and the commits status lists as
\* unassigned, are exactly the commits that are not merges, are reachable
\* from party/<name> and are reachable from no member branch, by the tips
\* of the member branches when the command is called.
C11_UniqueCommits ==
    active # None =>
        /\ \A in \in SyncInputs(Cur, Members(Cur)) :
            SyncReplays(Cur, cmd_party_sync(Cur, in))
        /\ StatusLists(Cur, StatusReport(Cur))

\* sync has replayed two unique commits on a party of two members.
C11_Witness ==
    /\ last.cmd = "sync" /\ last.rc = 0
    /\ Len(Members(Cur)) = 2
    /\ {"x", "y"} \subseteq PatchesOf(refs["b1"])

\* continue returned k where the move that completes without a conflict
\* returned m: continue left what the move left, and ran no cherry-pick.
ContinuedAsMove(m, k) ==
    k.rc = 0 => (m.rc = 0 /\ k.s = m.s /\ k.picks = <<>>)

\* move(commit, target) run in S with in: when its cherry-pick conflicts and
\* the user resolves it, continue ends as the move that meets no conflict.
MoveResumed(S, commit, target, in) ==
    MoveConflicted(S, commit, target,
                   cmd_party_move(S, commit, target, [in EXCEPT !.pc = 1]))
        => ContinuedAsMove(
               cmd_party_move(S, commit, target, [in EXCEPT !.pc = 0]),
               cmd_party_continue(
                   cmd_party_move(S, commit, target, [in EXCEPT !.pc = 1]).s,
                   [in EXCEPT !.pc = 0, !.resolved = TRUE]))

\* C12: a pending move resumed by a continue that returns 0 ends in the
\* state the same move leaves when its cherry-pick does not conflict: the
\* commit is on the target branch only, what continue did after the
\* cherry-pick is the rebuild and the checkout of the aggregate branch, and
\* continue cherry-picked nothing onto the default branch.
C12_ContinueCompletesMove ==
    \A commit \in MoveChoices(Cur), target \in InputNames :
        \A in \in MoveInputs(Cur) :
            MoveResumed(Cur, commit, target, in)

\* A move onto a member other than the default is pending, and continue
\* returns 0.
C12_Witness ==
    /\ MovePending(Cur)
    /\ wt.br # get_party_config(Cur, active).default
    /\ cmd_party_continue(Cur, [CleanInput EXCEPT !.resolved = TRUE]).rc = 0

\* continue, run in S with in, gets as far as git cherry-pick --continue,
\* which fails: no cherry-pick is stopped in the worktree, or the user has
\* not resolved it.
ResumeFails(S, in) ==
    /\ PendingSet(S)
    /\ get_party_worktree(S)
    /\ get_party_config(S, S.active).pending = "move"
           => get_party_config(S, S.active).pendingTarget # None
    /\ S.wt.op # "pick" \/ ~in.resolved

\* r leaves the registry of the active party of S and its aggregate branch
\* as they are in S.
PartyKept(S, r) ==
    /\ r.s.active = S.active
    /\ get_party_config(r.s, S.active) = get_party_config(S, S.active)
    /\ r.s.refs[get_party_branch_name(S.active)]
           = S.refs[get_party_branch_name(S.active)]

\* C13: continue run with a pending operation whose cherry-pick --continue
\* fails returns 1, and pending, pendingTarget, the default branch, the
\* member list and the aggregate branch are as before.
C13_ContinueStillFails ==
    \A in \in ContinueInputs(Cur) :
        ResumeFails(Cur, in) =>
            /\ cmd_party_continue(Cur, in).rc = 1
            /\ PartyKept(Cur, cmd_party_continue(Cur, in))

\* A move is stopped at a conflict the user has not resolved, and continue
\* fails at it.
C13_Witness ==
    /\ MovePending(Cur)
    /\ cfg[active].pendingTarget = "b2"
    /\ cmd_party_continue(Cur, CleanInput).why = "pick"
    /\ cmd_party_continue(Cur, CleanInput).rc = 1

\* What abort leaves, run in S with an operation pending: the two markers
\* unset and nothing else of the registry, no branch and neither HEAD
\* changed.
AbortDone(S, r) ==
    /\ r.rc = 0
    /\ get_party_config(r.s, S.active).pending = None
    /\ get_party_config(r.s, S.active).pendingTarget = None
    /\ r.s.active = S.active
    /\ get_party_config(r.s, S.active).branches = get_party_config(S, S.active).branches
    /\ get_party_config(r.s, S.active).default = get_party_config(S, S.active).default
    /\ r.s.refs = S.refs
    /\ r.s.mh = S.mh
    /\ \A n \in PartyNames \ {S.active} : r.s.cfg[n] = S.cfg[n]

\* C14: abort run while an operation is pending returns 0 and clears
\* pending and pendingTarget only: the party stays active, and its member
\* list, default branch and aggregate branch are unchanged, in every
\* reachable state in which pending is set.
C14_AbortClearsPending ==
    PendingSet(Cur) => AbortDone(Cur, cmd_party_abort(Cur))

\* abort has cleared the pending operation of a party of two members.
C14_Witness ==
    /\ last.cmd = "abort" /\ last.rc = 0 /\ last.why = "ok"
    /\ active = "p"
    /\ Members(Cur) = <<"b1", "b2">>
    /\ ~PendingSet(Cur)
    /\ wt.op = "none"

\* C15: abort run on an active party with no pending operation returns 0
\* and changes nothing: the member list, the default branch, the active
\* pointer, the worktree and the branches are as before.
C15_AbortNothingPending ==
    (active # None /\ cfg[active].pending = None) =>
        /\ cmd_party_abort(Cur).rc = 0
        /\ cmd_party_abort(Cur).s = Cur

\* No operation is pending on the active party while a merge is stopped in
\* its worktree, and abort finds nothing to abort.
C15_Witness ==
    /\ active = "p"
    /\ cfg[active].pending = None
    /\ wt.op = "merge"
    /\ cmd_party_abort(Cur).why = "nopending"

\* The party name has its default branch and its member list in the
\* registry c.
Configured(c, name) ==
    c[name].default # None /\ ParseBranches(c[name].branches) # <<>>

\* C16: once start has returned 0 the party stays active until a finish
\* returns 0: no step of add, default, move, sync, status, continue or
\* abort, whether the command succeeds or fails, and no finish that fails,
\* unsets party.active, points it at another party or deletes the party's
\* config.
C16_StaysActive ==
    [][(active # None /\ ~(last'.cmd = "finish" /\ last'.rc = 0))
           => (active' = active /\ Configured(cfg, active) /\ Configured(cfg', active))]_vars

\* The party is active after its default has changed and a sync has failed.
C16_Witness ==
    /\ active = "p"
    /\ last.cmd = "sync" /\ last.rc = 1
    /\ cfg["p"].default = "b2"
    /\ Configured(cfg, "p")

\* What finish leaves when it returns 0, run in S.
FinishDone(S, r) ==
    r.rc = 0 =>
        /\ get_current_branch(r.s) = get_party_config(S, S.active).default
        /\ ~branch_exists_local(r.s, get_party_branch_name(S.active))
        /\ r.s.cfg[S.active] = NoConfig
        /\ get_active_party(r.s) = None

\* C17: when finish returns 0 the main worktree is on the default branch of
\* the party, the branch party/<name> is gone, the keys default, branches,
\* pending and pendingTarget of the party are unset and party.active is
\* unset.
C17_FinishCleansUp ==
    active # None =>
        \A in \in FinishInputs(Cur) :
            FinishDone(Cur, cmd_party_finish(Cur, in))

\* finish has returned 0 after its sync moved a commit to the default
\* branch.
C17_Witness ==
    /\ last.cmd = "finish" /\ last.rc = 0
    /\ active = None
    /\ mh.br = "b1"
    /\ "x" \in PatchesOf(refs["b1"])
    /\ refs["party/p"] = NoCommit

\* S, and S after the user has removed the party worktree.
WorktreeVariants(S) == {S, [S EXCEPT !.wt = NoWorktree]}

\* What finish leaves, run in S, when its sync fails.
FinishStopped(S, r) ==
    /\ r.rc # 0
    /\ get_active_party(r.s) = S.active
    /\ Configured(r.s.cfg, S.active)
    /\ get_party_config(r.s, S.active).default = get_party_config(S, S.active).default
    /\ get_party_config(r.s, S.active).branches = get_party_config(S, S.active).branches
    /\ branch_exists_local(r.s, get_party_branch_name(S.active))

\* C18: when the sync that finish runs fails, at a precondition, at a
\* cherry-pick that conflicts or in the rebuild, finish returns non-zero and
\* the party is still active, with its config and its aggregate branch.
C18_FinishSyncFails ==
    active # None =>
        \A S \in WorktreeVariants(Cur) :
            \A in \in FinishInputs(S) :
                cmd_party_finish(S, in).why = "sync"
                    => FinishStopped(S, cmd_party_finish(S, in))

\* finish has stopped in the rebuild of its sync, at a merge that conflicts.
C18_Witness ==
    /\ last.cmd = "finish" /\ last.why = "sync" /\ last.rc = 1
    /\ active = "p"
    /\ wt.op = "merge"
    /\ branch_exists_local(Cur, "party/p")
    /\ cmd_party_sync([Cur EXCEPT !.wt = NoWorktree], CleanInput).why = "noworktree"

\* branch is a member of the active party of S.
IsMember(S, branch) == \E i \in 1..Len(Members(S)) : Members(S)[i] = branch

\* S with branch written after the members of the active party.
Appended(S, branch) ==
    [S EXCEPT !.cfg[S.active].branches = JoinComma(Members(S) \o <<branch>>)]

\* add(branch) returned r from S: branch is the last member, after the
\* members of S in their order, and r is what sync returns once it is.
AddAppends(S, branch, in, r) ==
    /\ Members(r.s) = Members(S) \o <<branch>>
    /\ r = cmd_party_sync(Appended(S, branch), in)

\* C19: add(branch) on an active party, of an existing local branch that is
\* not a member, appends it to the member list as its last element, the
\* earlier members keeping their order, then runs sync and returns what
\* sync returns; add of a branch that is a member returns 0 and leaves the
\* member list and the aggregate branch unchanged.  The branch names are
\* names without a comma.
C19_AddAppends ==
    active # None =>
        \A branch \in InputNames :
            \A in \in SyncInputs(Cur, Members(Cur) \o <<branch>>) :
                /\ IsMember(Cur, branch) =>
                    /\ cmd_party_add(Cur, branch, in).rc = 0
                    /\ cmd_party_add(Cur, branch, in).s = Cur
                /\ (~IsMember(Cur, branch) /\ branch_exists_local(Cur, branch)) =>
                    AddAppends(Cur, branch, in, cmd_party_add(Cur, branch, in))

\* add has appended b2 to the party started with b3, and its sync has moved
\* nothing and rebuilt the view of the three.
C19_Witness ==
    /\ last.cmd = "add" /\ last.rc = 0
    /\ Members(Cur) = <<"b1", "b3", "b2">>
    /\ AggregateCheckedOut(Cur)
    /\ cmd_party_add(Cur, "b3", CleanInput).why = "member"

\* C20: default(branch) makes branch the default of the active party only
\* when branch is a member, and changes nothing else; when branch is not a
\* member, does not exist locally, or no party is active, it returns 1 and
\* the default, as everything else, is unchanged.
C20_DefaultOfMember ==
    \A branch \in InputNames \cup {Ghost} :
        IF active # None /\ IsMember(Cur, branch) /\ branch_exists_local(Cur, branch)
        THEN /\ cmd_party_default(Cur, branch).rc = 0
             /\ cmd_party_default(Cur, branch).s
                    = [Cur EXCEPT !.cfg[active].default = branch]
        ELSE Rejected(Cur, cmd_party_default(Cur, branch))

\* default has made b2 the default of a party that b3 is not a member of,
\* and rejects b3 and a branch that does not exist.
C20_Witness ==
    /\ last.cmd = "default" /\ last.rc = 0
    /\ get_party_config(Cur, active).default = "b2"
    /\ Members(Cur) = <<"b1", "b2">>
    /\ cmd_party_default(Cur, "b3").why = "notmember"
    /\ cmd_party_default(Cur, Ghost).why = "nobranch"

\* The return statements of the precondition checks: a party is active or
\* none is, the tree has staged or unstaged changes, the current branch is
\* not known, a branch does not exist, party/<name> exists, the branch is
\* not a member.
PreconditionUnmet ==
    {"active", "noactive", "dirty", "nocurrent", "nobranch", "exists", "notmember"}

\* The command that returned r from S was rejected at a precondition and
\* left the registry as it was.
RegistryKept(S, r) ==
    r.why \in PreconditionUnmet =>
        /\ r.rc = 1
        /\ r.s.active = S.active
        /\ r.s.cfg = S.cfg

\* C21: a party command rejected at a precondition (no active party, staged
\* or unstaged changes, a branch that does not exist, a target that is not
\* a member) returns 1 and leaves the active pointer and every key of every
\* party as they were; add run with staged or unstaged changes in the main
\* worktree is one of them.
C21_RejectKeepsRegistry ==
    /\ \A name \in PartyNames, given \in GivenAny :
        \A in \in StartInputs(Cur, AllBranches(get_current_branch(Cur), given)) :
            RegistryKept(Cur, cmd_party_start(Cur, name, given, in))
    /\ \A branch \in InputNames \cup {Ghost} :
        /\ \A in \in SyncInputs(Cur, Members(Cur) \o <<branch>>) :
            RegistryKept(Cur, cmd_party_add(Cur, branch, in))
        /\ RegistryKept(Cur, cmd_party_default(Cur, branch))
        /\ \A commit \in MoveChoices(Cur), in \in MoveInputs(Cur) :
            RegistryKept(Cur, cmd_party_move(Cur, commit, branch, in))
    /\ \A in \in SyncInputs(Cur, Members(Cur)) :
        RegistryKept(Cur, cmd_party_sync(Cur, in))
    /\ \A in \in FinishInputs(Cur) :
        RegistryKept(Cur, cmd_party_finish(Cur, in))
    /\ \A in \in ContinueInputs(Cur) :
        RegistryKept(Cur, cmd_party_continue(Cur, in))
    /\ RegistryKept(Cur, cmd_party_abort(Cur))

\* A party is active, b2 is a local branch that is not a member, and add of
\* it is stopped at the staged or unstaged changes.
C21_Witness ==
    /\ active = "p"
    /\ ~IsMember(Cur, "b2")
    /\ cmd_party_add(Cur, "b2", DirtyInput).why = "dirty"
    /\ cmd_party_add(Cur, "b2", DirtyInput).rc = 1

\* The worktree of S is detached at a commit, with no merge or cherry-pick
\* in progress.
WtSettled(S) == S.wt.br = None /\ S.wt.op = "none"

\* The worktree of S is stopped in a merge or a cherry-pick, and the active
\* party has a pending operation recorded.
WtStopped(S) == S.wt.op # "none" /\ PendingSet(S)

\* C22: after a party command returns the party worktree is in one of two
\* states: detached at a commit with no merge or cherry-pick in progress,
\* which it is whenever the command returned 0, abort included, or stopped
\* in a conflict with a pending operation recorded.
C22_WorktreeEndStates ==
    (last.cmd # "user" /\ wt.exists) =>
        /\ WtSettled(Cur) \/ WtStopped(Cur)
        /\ last.rc = 0 => WtSettled(Cur)

\* abort has returned 0 after a move that stopped at a conflict on b2, and
\* the worktree is on b2.
C22_Witness ==
    /\ last.cmd = "abort" /\ last.rc = 0
    /\ wt.exists /\ wt.op = "none" /\ wt.br = "b2"
    /\ "x" \in PatchesOf(refs["party/p"])
    /\ "x" \notin PatchesOf(refs["b2"])

\* C23: in every reachable state of the registry, pendingTarget is set if
\* and only if pending = move: a pending move has its target, and a pending
\* sync or no pending operation has none, also after a move that stopped at
\* a conflict and a sync that stopped after it.
C23_TargetIffMove ==
    \A n \in PartyNames :
        cfg[n].pendingTarget # None <=> cfg[n].pending = "move"

\* A move onto b2 is pending with its target, and a sync run now stops at a
\* cherry-pick.
C23_Witness ==
    /\ active = "p"
    /\ cfg["p"].pending = "move" /\ cfg["p"].pendingTarget = "b2"
    /\ cmd_party_sync(Cur, CleanInput).why = "pick"

\* The default branch of the active party of S.
DefaultOf(S) == get_party_config(S, S.active).default

\* sync returned r after move(commit, target) had returned 0 from S: no
\* unassigned commit holds the change of commit, the change is on target,
\* and the default branch is where it was in S.
MovedThenSynced(S, commit, target, r) ==
    r.rc = 0 =>
        /\ \A i \in 1..Len(Unassigned(r.s)) : Unassigned(r.s)[i].patch # commit.patch
        /\ commit.patch \in PatchesOf(r.s.refs[target])
        /\ commit.patch \notin PatchesOf(r.s.refs[DefaultOf(S)])
        /\ r.s.refs[DefaultOf(S)] = S.refs[DefaultOf(S)]

\* move(commit, target) returned m from S, and sync is run next.
MoveThenSync(S, commit, target, m) ==
    (m.rc = 0 /\ target # DefaultOf(S)) =>
        \A in \in SyncInputs(m.s, Members(m.s)) :
            MovedThenSynced(S, commit, target, cmd_party_sync(m.s, in))

\* The commits a user names to move, the tip of the default branch among
\* them: a commit whose change the default branch holds.
NamedCommits(S) ==
    MoveChoices(S) \cup (IF S.active = None THEN {} ELSE {S.refs[DefaultOf(S)]})

\* C24, as stated: after move(c, target), target not being the default
\* branch, and a sync after it, both returning 0, no unassigned commit of
\* the aggregate branch holds the change of c, and the change is on target
\* and not on the default branch.
C24_MoveThenSync ==
    \A commit \in NamedCommits(Cur), target \in InputNames :
        \A in \in MoveInputs(Cur) :
            MoveThenSync(Cur, commit, target, cmd_party_move(Cur, commit, target, in))

\* C24, amended: the same of a commit c whose change the default branch
\* does not hold when move is called; the default branch is then where it
\* was.
C24_MoveThenSyncFresh ==
    active # None =>
        \A commit \in NamedCommits(Cur), target \in InputNames :
            \A in \in MoveInputs(Cur) :
                commit.patch \notin PatchesOf(refs[DefaultOf(Cur)]) =>
                    MoveThenSync(Cur, commit, target,
                                 cmd_party_move(Cur, commit, target, in))

\* move has put x on b2, which is not the default branch, and sync returns 0.
C24_Witness ==
    /\ last.cmd = "move" /\ last.rc = 0
    /\ DefaultOf(Cur) = "b1"
    /\ "x" \in PatchesOf(refs["b2"])
    /\ cmd_party_sync(Cur, CleanInput).rc = 0

\* sync returned r2 after sync had returned r1 from S, both 0: the
\* aggregate branch is at the commit the first sync left it at, and the
\* registry and every other branch are as in S.
SyncedTwice(S, r1, r2) ==
    (r1.rc = 0 /\ r2.rc = 0) =>
        /\ r2.s.refs[get_party_branch_name(S.active)]
               = r1.s.refs[get_party_branch_name(S.active)]
        /\ r2.s.active = S.active /\ r2.s.cfg = S.cfg
        /\ \A b \in Branches : r2.s.refs[b] = S.refs[b]

\* sync returned r1 from S, and sync is run a second time.
SyncAgain(S, r1) ==
    \A in \in SyncInputs(r1.s, Members(r1.s)) :
        SyncedTwice(S, r1, cmd_party_sync(r1.s, in))

\* C25: sync is idempotent when the aggregate branch has no unique commit:
\* two syncs in a row that return 0, with no change to any branch between
\* them, leave party/<name> at the same commit id and leave the registry
\* and the member branches unchanged.
C25_SyncIdempotent ==
    (active # None /\ Unassigned(Cur) = <<>>) =>
        \A in \in SyncInputs(Cur, Members(Cur)) :
            SyncAgain(Cur, cmd_party_sync(Cur, in))

\* The party has two members and no unique commit, and sync returns 0 at an
\* earlier and at a later time.
C25_Witness ==
    /\ active = "p"
    /\ Members(Cur) = <<"b1", "b2">>
    /\ Unassigned(Cur) = <<>>
    /\ cmd_party_sync(Cur, CleanInput).rc = 0
    /\ cmd_party_sync(cmd_party_sync(Cur, CleanInput).s, [CleanInput EXCEPT !.now = 1]).rc = 0

\* The builder is checked for lists of at most this many branches.
MaxList == 3

\* The non-empty lists of at most MaxList local branches of S.
BranchLists(S) ==
    SeqsUpTo({b \in Branches : branch_exists_local(S, b)}, MaxList) \ {<<>>}

\* What the builder is run with for the list bs.
BuildInputs(bs) ==
    {Input(FALSE, now, mc, 0, TRUE, TRUE, FALSE, TRUE) :
        now \in Stamps, mc \in {None} \cup Range(bs)}

\* The builder returned the commit of b: it is HEAD of the worktree and the
\* tip of every branch of bs is among its ancestors.
BuiltHoldsAll(S, bs, b) ==
    b.commit # NoCommit =>
        /\ b.commit = WtHead(b.s)
        /\ \A i \in 1..Len(bs) : S.refs[bs[i]] \in Ancestors(b.commit)

\* The builder returned failure in b: the merge of some bs[k] failed after
\* the branches before it were built, and nothing was merged after it.
BuiltStopsAtFirst(S, bs, in, b) ==
    b.commit = NoCommit =>
        \E k \in 2..Len(bs) :
            /\ build_merged_view_in_worktree(S, SubSeq(bs, 1, k - 1), in).commit # NoCommit
            /\ b.s = GitWtMerge(
                         build_merged_view_in_worktree(S, SubSeq(bs, 1, k - 1), in).s,
                         bs[k], bs[k] = in.mc, in.now).s
            /\ ~GitWtMerge(
                         build_merged_view_in_worktree(S, SubSeq(bs, 1, k - 1), in).s,
                         bs[k], bs[k] = in.mc, in.now).ok

\* C26: for every non-empty list of branches, the commit that
\* build_merged_view_in_worktree returns is HEAD of the worktree and has
\* the tip of every listed branch among its ancestors; the branches are
\* merged one at a time in the order of the list, from branches[0] on; the
\* first merge that fails makes it return failure with no later merge
\* attempted; and it returns failure for an empty list and for a missing
\* worktree.
C26_BuildMergesAll ==
    /\ \A in \in BuildInputs(<<>>) :
        build_merged_view_in_worktree(Cur, <<>>, in) = [s |-> Cur, commit |-> NoCommit]
    /\ \A bs \in BranchLists(Cur) :
        \A in \in BuildInputs(bs) :
            /\ build_merged_view_in_worktree([Cur EXCEPT !.wt = NoWorktree], bs, in).commit
                   = NoCommit
            /\ wt.exists =>
                /\ BuiltHoldsAll(Cur, bs, build_merged_view_in_worktree(Cur, bs, in))
                /\ BuiltStopsAtFirst(Cur, bs, in,
                                     build_merged_view_in_worktree(Cur, bs, in))

\* The worktree is stopped in a merge at the tip of b1, and the builder run
\* for the list of b2 alone returns a commit.
C26_Witness ==
    /\ wt.exists /\ wt.op = "merge" /\ wt.at = refs["b1"]
    /\ build_merged_view_in_worktree(Cur, <<"b2">>, CleanInput).commit # NoCommit

RECURSIVE SequentialMerge(_, _, _, _)
\* c is what merging bs[1..k] one at a time, in this order and at the tips S
\* holds, leaves: the tip of bs[1], and for every further branch the commit
\* before it when that holds the tip already, the tip when it is ahead of
\* the commit before it, a merge commit of the two otherwise.
SequentialMerge(S, bs, k, c) ==
    IF k = 1 THEN c = S.refs[bs[1]]
    ELSE \/ /\ S.refs[bs[k]] \in Ancestors(c)
            /\ SequentialMerge(S, bs, k - 1, c)
         \/ /\ c = S.refs[bs[k]]
            /\ \E prev \in Ancestors(c) : SequentialMerge(S, bs, k - 1, prev)
         \/ /\ IsMergeCommit(c) /\ Len(c.par) = 2 /\ c.par[2] = S.refs[bs[k]]
            /\ c.par[2] \notin Ancestors(c.par[1])
            /\ c.par[1] \notin Ancestors(c.par[2])
            /\ SequentialMerge(S, bs, k - 1, c.par[1])

\* The aggregate branch of the active party of S is at the sequential merge
\* of its member list and checked out in the main worktree.
AggregateBuilt(S) ==
    /\ Members(S) # <<>>
    /\ SequentialMerge(S, Members(S), Len(Members(S)),
                       S.refs[get_party_branch_name(S.active)])
    /\ get_current_branch(S) = get_party_branch_name(S.active)

\* The command that returned r has returned 0.
Built(r) == r.rc = 0 => AggregateBuilt(r.s)

\* The command that returned r has returned 0 after its rebuild: it is not
\* the add of a branch that is a member, nor the continue that finds
\* nothing pending, which return 0 and do nothing.
BuiltWhenRebuilt(r) == (r.rc = 0 /\ r.why \notin {"member", "nopending"}) => AggregateBuilt(r.s)

SavedLists == {NotGiven, <<>>, <<"b2">>, <<"b1", "b2">>}

\* S, and S with keys of the party q in the registry.
RegistryVariants(S) ==
    {S, [S EXCEPT !.cfg["q"] = [default |-> "b2", branches |-> JoinComma(<<"b2", "b1">>),
                                pending |-> "sync", pendingTarget |-> None]]}

\* T is S after save_party_config(name, ...): the fields given are what a
\* lookup of name returns, its other fields are what it returned in S, and
\* the other parties, the active pointer, the branches and the worktrees
\* are as in S.
SavedOnly(S, T, name, default, branches, pending, pending_target) ==
    /\ get_party_config(T, name).default
           = (IF default # None THEN default ELSE get_party_config(S, name).default)
    /\ get_party_config(T, name).branches
           = (IF branches # NotGiven THEN branches ELSE get_party_config(S, name).branches)
    /\ get_party_config(T, name).pending
           = (IF pending # None THEN pending ELSE get_party_config(S, name).pending)
    /\ get_party_config(T, name).pendingTarget
           = (IF pending_target # None THEN pending_target
              ELSE get_party_config(S, name).pendingTarget)
    /\ \A n \in PartyNames \ {name} : T.cfg[n] = S.cfg[n]
    /\ T.active = S.active /\ T.refs = S.refs /\ T.wt = S.wt /\ T.mh = S.mh

\* C28: save_party_config writes the fields it is passed and leaves every
\* other field of the party, the fields of every other party and the active
\* pointer as they were.
C28_SaveWritesGiven ==
    \A S \in RegistryVariants(Cur), name \in PartyNames, branches \in SavedLists :
        \A default \in {None, "b2"}, pending \in {None, "move"},
           pending_target \in {None, "b1"} :
            SavedOnly(S,
                      save_party_config(S, name, default, branches, pending,
                                        pending_target),
                      name, default, branches, pending, pending_target)

\* default has written the default branch of a party while a move onto b2
\* is pending, and the markers are in place.
C28_Witness ==
    /\ last.cmd = "default" /\ last.rc = 0
    /\ cfg["p"].default = "b2"
    /\ cfg["p"].pending = "move" /\ cfg["p"].pendingTarget = "b2"
    /\ Members(Cur) = <<"b1", "b2">>

\* Member lists of names without a comma.
PlainLists == SeqsUpTo(Branches, MaxList)

\* The member list bs saved for name in S is the list loaded afterwards.
RoundTrip(S, name, bs) ==
    get_party_config(save_party_config(S, name, None, bs, None, None), name).branches = bs

\* T is S after delete_party_config(name): name loads as a party without
\* keys and the keys of the other parties are those of S.
DeletedOnly(S, T, name) ==
    /\ get_party_config(T, name)
           = [default |-> None, branches |-> <<>>, pending |-> None,
              pendingTarget |-> None]
    /\ \A n \in PartyNames \ {name} : T.cfg[n] = S.cfg[n]

\* C29: a member list of names without a comma is loaded as it was saved,
\* the same names in the same order; and after delete_party_config(name) the
\* party loads with no default, no members and no pending operation, while
\* the keys of the other parties are as before.
C29_RegistryRoundTrip ==
    \A S \in RegistryVariants(Cur), name \in PartyNames :
        /\ \A bs \in PlainLists : RoundTrip(S, name, bs)
        /\ DeletedOnly(S, delete_party_config(S, name), name)

\* start has saved the list b1, b2, which loads as saved, and deleting the
\* party's keys leaves none of it.
C29_Witness ==
    /\ last.cmd = "start" /\ last.rc = 0
    /\ cfg["p"].branches = <<"b1", ",", "b2">>
    /\ Members(Cur) = <<"b1", "b2">>
    /\ delete_party_config(Cur, "p").cfg["p"] = NoConfig

\* The lists given to start that hold the name with a comma.
CommaLists == {given \in SeqsUpTo(InputNames \cup {CommaBranch}, MaxGiven) :
                  CommaBranch \in Range(given)}

\* C30: start and add return 1 and change nothing when a branch name they
\* are given holds a comma.
C30_CommaRejected ==
    /\ \A name \in StartNames, given \in CommaLists :
           \A in \in StartInputs(Cur, AllBranches(get_current_branch(Cur), given)) :
               Rejected(Cur, cmd_party_start(Cur, name, given, in))
    /\ \A in \in SyncInputs(Cur, Members(Cur) \o <<CommaBranch>>) :
           Rejected(Cur, cmd_party_add(Cur, CommaBranch, in))

\* add has returned 0 for the branch named "b1,b2", and the party of b1 now
\* loads with the members b1, b1 and b2.
C30_Witness ==
    /\ last.cmd = "add" /\ last.rc = 0
    /\ cfg["p"].branches = <<"b1", ",", "b1", ",", "b2">>
    /\ Members(Cur) = <<"b1", "b1", "b2">>

\* C31: continue run on an active party with no pending operation returns 1
\* and changes nothing.
C31_ContinueNothingPending ==
    (active # None /\ cfg[active].pending = None) =>
        \A in \in ContinueInputs(Cur) : Rejected(Cur, cmd_party_continue(Cur, in))

\* A party is active with nothing pending after a sync, and continue leaves
\* by its check for a pending operation, with exit code 0.
C31_Witness ==
    /\ active = "p"
    /\ cfg[active].pending = None
    /\ last.cmd = "sync" /\ last.rc = 0
    /\ cmd_party_continue(Cur, CleanInput).why = "nopending"
    /\ cmd_party_continue(Cur, CleanInput).rc = 0

\* The user commits up to MaxMore changes more than status lists.
MaxMore == 2

RECURSIVE CommitsOver(_, _)
\* n commits of the user over c.
CommitsOver(c, n) ==
    IF n = 0 THEN c ELSE MkCommit(<<CommitsOver(c, n - 1)>>, "w", 0)

\* S after the user has committed n changes on the aggregate branch.
Committed(S, n) ==
    [S EXCEPT !.refs[get_party_branch_name(S.active)] = CommitsOver(@, n)]

\* status returns 0 and S is as it was.
StatusReads(S) == cmd_party_status(S).rc = 0 /\ cmd_party_status(S).s = S

\* The report lists the first StatusPreview of more unique commits than
\* that, and counts the others.
StatusCaps(unique, report) ==
    Len(unique) > StatusPreview =>
        /\ report.unassigned = SubSeq(unique, 1, StatusPreview)
        /\ report.more = Len(unique) - StatusPreview

\* C32: status returns 0 and changes nothing, with an active party or
\* without one; of more than 10 unassigned commits it lists the first 10 and
\* reports how many the others are.
C32_StatusReadOnly ==
    /\ StatusReads(Cur)
    /\ StatusCaps(Unassigned(Cur), StatusReport(Cur))
    /\ (active # None /\ refs[get_party_branch_name(active)] # NoCommit) =>
           \A n \in (StatusPreview + 1)..(StatusPreview + MaxMore) :
               /\ StatusReads(Committed(Cur, n))
               /\ StatusCaps(Unassigned(Committed(Cur, n)),
                             StatusReport(Committed(Cur, n)))

\* Two commits are unassigned, and after ten more of the user status lists
\* ten and counts two others.
C32_Witness ==
    /\ active = "p"
    /\ Len(Unassigned(Cur)) = 2
    /\ Len(Unassigned(Committed(Cur, StatusPreview))) = StatusPreview + 2
    /\ Len(StatusReport(Committed(Cur, StatusPreview)).unassigned) = StatusPreview
    /\ StatusReport(Committed(Cur, StatusPreview)).more = 2

\* Every commit unique to the aggregate branch in S has its change on the
\* default branch of S as T holds it.
UniqueOnDefault(S, T) ==
    \A c \in UniqueSet(S) : c.patch \in PatchesOf(T.refs[DefaultOf(S)])

\* sync returned r from S, stopped at a cherry-pick: every continue that
\* then completes leaves the unique commits of S on the default branch.
SyncResumed(S, r) ==
    (r.rc = 1 /\ r.why = "pick") =>
        \A in \in ContinueInputs(r.s) :
            (in.resolved /\ cmd_party_continue(r.s, in).rc = 0)
                => UniqueOnDefault(S, cmd_party_continue(r.s, in).s)

\* C33: after a sync that stops at a cherry-pick conflict and a continue
\* that completes it, every commit that was unique to the aggregate branch
\* before the sync is applied to the default branch.
C33_SyncResumeKeepsAll ==
    (active # None /\ cfg[active].pending = None /\ wt.exists /\ wt.op = "none") =>
        \A in \in SyncInputs(Cur, Members(Cur)) :
            SyncResumed(Cur, cmd_party_sync(Cur, in))

\* continue has completed a sync of the commits x and y that stopped at y:
\* y is on the default branch and no branch holds x.
C33_Witness ==
    /\ last.cmd = "continue" /\ last.rc = 0
    /\ "y" \in PatchesOf(refs[DefaultOf(Cur)])
    /\ "x" \notin KnownPatches

\* The change of the commit d is on the aggregate branch or on a member
\* branch of the active party of S, as T holds them.
KeptIn(S, T, d) ==
    \/ d.patch \in PatchesOf(T.refs[get_party_branch_name(S.active)])
    \/ \E i \in 1..Len(Members(S)) : d.patch \in PatchesOf(T.refs[Members(S)[i]])

\* move(commit, target) returned r from S: when it returned 0, the other
\* unassigned commits of S are kept.
MoveKeepsOthers(S, commit, r) ==
    r.rc = 0 => \A d \in UniqueSet(S) \ {commit} : KeptIn(S, r.s, d)

\* C34: after a move(c, target) that returns 0, every commit other than c
\* that was unassigned on the aggregate branch before the move is reachable
\* from party/<name> or from a member branch.
C34_MoveKeepsOthers ==
    (active # None /\ cfg[active].pending = None /\ wt.exists /\ wt.op = "none") =>
        \A commit \in MoveChoices(Cur), target \in InputNames :
            \A in \in MoveInputs(Cur) :
                MoveKeepsOthers(Cur, commit, cmd_party_move(Cur, commit, target, in))

\* move has returned 0 for the commit y, made after x, and no branch holds
\* the change of x.
C34_Witness ==
    /\ last.cmd = "move" /\ last.rc = 0
    /\ \E i \in 1..Len(Members(Cur)) : "y" \in PatchesOf(refs[Members(Cur)[i]])
    /\ "x" \notin KnownPatches

\* sync returned r from S: it ran git cherry-pick on no commit whose change
\* the default branch of S already held.
PicksFresh(S, r) ==
    \A i \in 1..Len(r.picks) : r.picks[i].patch \notin PatchesOf(S.refs[DefaultOf(S)])

\* No change is held by two commits of the default branch of S.
AppliedOnce(S) ==
    \A c, d \in Ancestors(S.refs[DefaultOf(S)]) :
        (~IsMergeCommit(c) /\ ~IsMergeCommit(d) /\ c.patch = d.patch) => c = d

\* sync returned r from S, stopped at a cherry-pick, and abort followed:
\* a second sync picks no commit the first one applied, and applies none
\* twice.
SyncAbortSync(S, r) ==
    (r.rc = 1 /\ r.why = "pick" /\ cmd_party_abort(r.s).rc = 0) =>
        \A in \in SyncInputs(cmd_party_abort(r.s).s, Members(S)) :
            /\ PicksFresh(cmd_party_abort(r.s).s,
                          cmd_party_sync(cmd_party_abort(r.s).s, in))
            /\ AppliedOnce(cmd_party_sync(cmd_party_abort(r.s).s, in).s)

\* C35: after a sync that stopped at a conflict part-way and was aborted, a
\* second sync does not cherry-pick again the commits the first sync
\* applied, and no unique commit is applied to the default branch twice.
C35_NoSecondPick ==
    (active # None /\ cfg[active].pending = None /\ wt.exists /\ wt.op = "none") =>
        \A in \in SyncInputs(Cur, Members(Cur)) :
            SyncAbortSync(Cur, cmd_party_sync(Cur, in))

\* abort has returned 0 after a sync that applied y and stopped at x: both
\* are still unassigned, and the next sync starts by cherry-picking y, whose
\* change the default branch holds.
C35_Witness ==
    /\ last.cmd = "abort" /\ last.rc = 0
    /\ "y" \in PatchesOf(refs[DefaultOf(Cur)])
    /\ "x" \notin PatchesOf(refs[DefaultOf(Cur)])
    /\ Len(Unassigned(Cur)) = 2
    /\ cmd_party_sync(Cur, CleanInput).picks # <<>>
    /\ cmd_party_sync(Cur, CleanInput).picks[1].patch = "y"
    /\ cmd_party_sync(Cur, CleanInput).rc = 1

\* start(name, ...) returned r from S with nothing of the party left: the
\* branch party/<name> exists only if it did in S, and the keys of name and
\* the active pointer are unset or as they were in S.
StartLeavesNothing(S, name, r) ==
    /\ branch_exists_local(r.s, get_party_branch_name(name))
           => branch_exists_local(S, get_party_branch_name(name))
    /\ r.s.cfg[name] \in {NoConfig, S.cfg[name]}
    /\ get_active_party(r.s) \in {None, get_active_party(S)}

\* C36: whenever start returns 1, on any failure path, the repository has
\* no party/<name> branch that did not exist before the call, no
\* party.<name>.* key and no active pointer that start wrote.
C36_StartFailsClean ==
    \A name \in PartyNames, given \in GivenAny :
        \A in \in StartInputs(Cur, AllBranches(get_current_branch(Cur), given)) :
            cmd_party_start(Cur, name, given, in).rc = 1
                => StartLeavesNothing(Cur, name, cmd_party_start(Cur, name, given, in))

\* start has returned 1 at the checkout of the aggregate branch it created:
\* no party is active, the party has no key, and party/p exists.
C36_Witness ==
    /\ last.cmd = "start" /\ last.rc = 1 /\ last.why = "checkout"
    /\ active = None
    /\ cfg["p"] = NoConfig
    /\ branch_exists_local(Cur, "party/p")

\* C37: the member list of the active party holds no branch twice.
C37_MembersDistinct ==
    active # None => Len(Members(Cur)) = Cardinality(Range(Members(Cur)))

\* start, given b2 twice on b1, has returned 0 and b2 is a member twice.
C37_Witness ==
    /\ last.cmd = "start" /\ last.rc = 0
    /\ Members(Cur) = <<"b1", "b2", "b2">>

\* In the registry c the party name has a default branch, which is one of
\* its members.
DefaultIsMember(c, name) ==
    /\ c[name].default # None
    /\ ParseBranches(c[name].branches) # <<>>
    /\ c[name].default \in Range(ParseBranches(c[name].branches))

\* Every member of name in the registry c is one in the registry d.
MembersKept(c, d, name) ==
    Range(ParseBranches(c[name].branches)) \subseteq Range(ParseBranches(d[name].branches))

\* C38: whenever a party is active its default branch is set and is one of
\* its members, of which there is at least one; and no step removes a
\* member of a party that stays active.
C38_DefaultIsMember ==
    [][/\ active' # None => DefaultIsMember(cfg', active')
       /\ (active # None /\ active' = active) => MembersKept(cfg, cfg', active)]_vars

\* default has made b2, added after the start, the default branch, and
\* nothing is pending.
C38_Witness ==
    /\ last.cmd = "default" /\ last.rc = 0
    /\ active = "p"
    /\ cfg["p"].default = "b2"
    /\ cfg["p"].pending = None
    /\ Members(Cur) = <<"b1", "b2">>

\* The branches given to start(name, given) and the current branch exist in
\* S, and party/<name> does not.
StartMet(S, name, given) ==
    /\ get_current_branch(S) # None
    /\ branch_exists_local(S, get_current_branch(S))
    /\ \A i \in 1..Len(given) : branch_exists_local(S, given[i])
    /\ ~branch_exists_local(S, get_party_branch_name(name))

\* C39: after a start that failed at a merge conflict, with the party
\* worktree left in the merge and no party active, a start whose branches
\* exist and merge without a conflict returns 0.
C39_StartAfterFailedStart ==
    (active = None /\ wt.exists /\ wt.op = "merge"
       /\ last.cmd = "start" /\ last.why = "build") =>
        \A name \in PartyNames, given \in GivenChoices, now \in Stamps :
            StartMet(Cur, name, given)
                => cmd_party_start(Cur, name, given, [CleanInput EXCEPT !.now = now]).rc = 0

\* start has failed at the merge of b2, and a second start of b1 and b2, in
\* which nothing conflicts, fails to build the merged view.
C39_Witness ==
    /\ last.cmd = "start" /\ last.why = "build" /\ last.rc = 1
    /\ active = None
    /\ wt.exists /\ wt.op = "merge"
    /\ StartMet(Cur, "p", <<"b2">>)
    /\ cmd_party_start(Cur, "p", <<"b2">>, CleanInput).rc = 1
    /\ cmd_party_start(Cur, "p", <<"b2">>, CleanInput).why = "build"

\* The mb worktree of the branch has a merge in progress.
MbMerging(M, branch) ==
    branch \in Branches /\ M.mwt[branch].exists /\ M.mwt[branch].merging

\* C40: mb reports a pending merge only for a branch whose mb worktree has
\* a merge in progress, and never for the branch of the main worktree: when
\* no mb worktree is in a merge, as after an mb that completed and detached
\* its worktree, mb for a branch is not rejected as pending.
C40_PendingIsMerging ==
    /\ find_pending_mb_branch(MbCur) # None =>
           /\ MbMerging(MbCur, find_pending_mb_branch(MbCur))
           /\ find_pending_mb_branch(MbCur) # mh.br
    /\ (\A b \in Branches : ~MbMerging(MbCur, b)) =>
           \A branch \in Branches, in \in MbInputs :
               cmd_mb(MbCur, branch, in).why # "pending"

\* mb has merged into b2 without a conflict and detached its worktree, no
\* worktree is in a merge, and mb for b3 is rejected with b1, the branch of
\* the main worktree, named as pending.
C40_Witness ==
    /\ mlast.cmd = "mb" /\ mlast.branch = "b2" /\ mlast.rc = 0
    /\ mwt["b2"] = [exists |-> TRUE, br |-> None, merging |-> FALSE]
    /\ \A b \in Branches : ~MbMerging(MbCur, b)
    /\ mh.br = "b1"
    /\ cmd_mb(MbCur, "b3", MbInput(FALSE, TRUE, FALSE, FALSE)).why = "pending"
    /\ cmd_mb(MbCur, "b3", MbInput(FALSE, TRUE, FALSE, FALSE)).pend = "b1"

====
